---- MODULE Spec2Model ----
(***************************************************************************)
(* Trace ingestion core of the trace processor: the proto trace reader     *)
(* (src/trace_processor/importers/proto/proto_trace_reader.cc) together    *)
(* with the collaborators it drives: the tokenizer, the per-sequence       *)
(* incremental state, the clock tracker and the trace sorter.              *)
(*                                                                         *)
(* The reader is translated from its source.  The collaborators have no    *)
(* source in this repository snapshot; they are modelled from the design   *)
(* document (spec.md) and from the calls the reader makes on them.         *)
(***************************************************************************)
EXTENDS Integers, Sequences, FiniteSets, TLC

VARIABLES
  force_full_sort,   \* CommandLineOptions::force_full_sort (--full-sort)
  config_mode,       \* Config::sorting_mode, as handed to CreateInstance
  latest_timestamp,  \* ProtoTraceReader::latest_timestamp_
  seqs,              \* ProtoTraceReader incremental state: seq id -> [valid, gen]
  gens,              \* every generation ever allocated: handle -> [interned, defaults]
  clock,             \* ClockTracker: [trace_time_clock, snapshots, incremental]
  stats,             \* TraceStorage stats counters
  metadata,          \* MetadataTracker entries written by service events
  snapshot_table,    \* TraceStorage clock snapshot table (rows, in insert order)
  sorter,            \* TraceSorter: [mode, queue, released, max_ts, packet_idx]
  tok,               \* ProtoTraceTokenizer carry buffer
  status,            \* status returned by the latest Parse call ("ok" / "error")
  eof,               \* NotifyEndOfFile has been called
  input,             \* bytes of the stream not handed to Parse yet
  stream,            \* the whole stream chosen at start (never changes)
  steps,             \* number of packets handed to ParsePacket so far
  npushed,           \* number of packets the reader pushed to the sorter (history)
  since_clear,       \* seq id -> ids received since the sequence's latest clear (history)
  parsed,            \* what the parser of each released entry saw (history)
  cur,               \* the packet handled by the latest step (history)
  prev,              \* the reader's context before the latest step (history)
  dropped_since,     \* seq ids with a packet loss since their latest clear (history)
  snap_log,          \* the clock snapshots handed to the tracker, by sequence (history)
  cleared_at,        \* seq id -> number of snapshots added before its latest clear (history)
  shell,             \* the shell's query run: the queries of the file and what came of them
  shadow             \* the context of a second instance, created with kDefaultHeuristics

vars == <<force_full_sort, config_mode, latest_timestamp, seqs, gens, clock, stats, metadata,
          snapshot_table,
          sorter, tok, status, eof, input, stream, steps, npushed, since_clear,
          parsed, cur, prev, dropped_since, snap_log, cleared_at, shell, shadow>>

----------------------------------------------------------------------------
(* Bounds of the model *)

\* Largest timestamp value a packet may carry.
MaxTs == 3
\* Number of packets handed to ParsePacket in one behaviour.
MaxPackets == 4
\* The same, in the specification of the sequence state.
MaxSeqPackets == 4
\* Length of the byte stream fed to Parse in the chunked specification.
MaxStreamLen == 5
\* Number of packets in the specification of sequence validity.
MaxValidPackets == 4
\* Number of packets in the specification of the clocks.
MaxClockPackets == 3
\* Packets fed to the routing specification.
MaxRoutePackets == 3
\* Packets fed to the specification of the sequence items.
MaxItemPackets == 3
\* Packets fed to the specification of the timestamp defaults.
MaxDefaultsPackets == 3
\* Packets fed to the specification of the order of the routes.
MaxOrderPackets == 3
\* Packets fed to the specification of the incremental clocks.
MaxIncrementalPackets == 4
\* Largest number of queries in a query file.
MaxQueries == 4

----------------------------------------------------------------------------
(* Small helpers *)

Max(a, b) == IF a >= b THEN a ELSE b

Range(s) == { s[i] : i \in 1..Len(s) }

\* perfetto::trace_processor::SortingMode
kDefaultHeuristics == 0
kForceFullSort == 1
kForceFlushPeriodWindowedSort == 2

SortingModes == {kDefaultHeuristics, kForceFullSort, kForceFlushPeriodWindowedSort}

\* Mutants of SortingModeOfFlag: the two modes swapped; the flag ignored.
SortingModeOfFlag_Swapped(flag) ==
  IF flag THEN kDefaultHeuristics ELSE kForceFullSort

SortingModeOfFlag_Ignored(flag) == kDefaultHeuristics

\* TraceProcessorMain: the --full-sort flag selects the sorting mode.
SortingModeOfFlag(flag) ==
  IF flag THEN kForceFullSort ELSE kDefaultHeuristics

----------------------------------------------------------------------------
(* Trace sorter (C7), modelled from the design document.  The reader calls *)
(* PushTracePacket(timestamp, state, packet), max_timestamp(),             *)
(* NotifyFlushEvent() and NotifyReadBufferEvent(); the two notifications   *)
(* take no argument.                                                       *)

\* Mutant of SorterModeOf: the deprecated windowed mode sorts everything at
\* the end.
SorterModeOf_WindowedIsFullSort(mode) ==
  IF mode = kDefaultHeuristics THEN kDefaultHeuristics ELSE kForceFullSort

\* The deprecated windowed mode is treated as the default heuristics.
SorterModeOf(mode) ==
  IF mode = kForceFullSort THEN kForceFullSort ELSE kDefaultHeuristics

\* flush_events and read_buffer_events count the notifications received
\* (history kept for the properties).
NewSorter(mode) ==
  [mode |-> SorterModeOf(mode), queue |-> <<>>, released |-> <<>>,
   max_ts |-> 0, packet_idx |-> 0, passes |-> 0,
   flush_events |-> 0, read_buffer_events |-> 0]

\* max_timestamp(): the largest timestamp ever pushed.
SorterMaxTimestamp(s) == s.max_ts

\* Mutant of InsertSorted: an entry goes before the entries of equal timestamp.
RECURSIVE InsertSorted_Unstable(_, _)
InsertSorted_Unstable(run, e) ==
  IF run = <<>> THEN <<e>>
  ELSE IF Head(run).ts < e.ts
  THEN <<Head(run)>> \o InsertSorted_Unstable(Tail(run), e)
  ELSE <<e>> \o run

\* Position of an entry in a sorted run: after every entry whose timestamp
\* is not larger (insertion order breaks ties).
RECURSIVE InsertSorted(_, _)
InsertSorted(run, e) ==
  IF run = <<>> THEN <<e>>
  ELSE IF Head(run).ts <= e.ts THEN <<Head(run)>> \o InsertSorted(Tail(run), e)
  ELSE <<e>> \o run

\* Mutant of StableSort: the entries are handed over in push order.
StableSort_PushOrder(q) == q

RECURSIVE StableSort(_)
StableSort(q) ==
  IF q = <<>> THEN <<>>
  ELSE InsertSorted(StableSort(SubSeq(q, 1, Len(q) - 1)), q[Len(q)])

\* A sorter entry captures the generation that is current when it is pushed.
\* idx is the push order; undated, seq and snap are history kept for the
\* properties (snap: what the captured generation held at push time).
PushTracePacket(s, ts, gen, p, snap) ==
  [s EXCEPT !.queue = Append(@, [ts |-> ts, idx |-> s.packet_idx + 1,
                                  gen |-> gen, body |-> p.body,
                                  seq |-> p.seq, undated |-> ~p.has_ts,
                                  snap |-> snap]),
            !.packet_idx = @ + 1,
            !.max_ts = Max(@, ts)]

Stamp(e, pass, at) ==
  [ts |-> e.ts, idx |-> e.idx, gen |-> e.gen, body |-> e.body, seq |-> e.seq,
   undated |-> e.undated, snap |-> e.snap, pass |-> pass, at |-> at]

\* Pops the buffered entries with timestamp <= bound, in non-decreasing
\* timestamp order, and hands them to the downstream parsers.
SortAndExtract(s, bound) ==
  LET out  == SelectSeq(s.queue, LAMBDA e : e.ts <= bound)
      keep == SelectSeq(s.queue, LAMBDA e : e.ts > bound)
      run  == StableSort(out)
  IN  [s EXCEPT !.queue = keep,
                !.released = @ \o [i \in 1..Len(run) |->
                                     Stamp(run[i], s.passes + 1, s.packet_idx)],
                !.passes = @ + 1]

\* The barrier as the sorter knows it: the caller passes no timestamp, so the
\* barrier bounds what has been pushed so far (the sorter's frontier).
BarrierTimestamp(s) == s.max_ts

\* A barrier releases what is buffered up to its timestamp, except in
\* full-sort mode.
ReleaseAtBarrier(s) ==
  IF s.mode = kForceFullSort THEN s ELSE SortAndExtract(s, BarrierTimestamp(s))

NotifyFlushEvent(s) ==
  ReleaseAtBarrier([s EXCEPT !.flush_events = @ + 1])

NotifyReadBufferEvent(s) ==
  ReleaseAtBarrier([s EXCEPT !.read_buffer_events = @ + 1])

\* Mutant of ExtractEventsForced: the final release treated as a barrier.
ExtractEventsForced_AsBarrier(s) == ReleaseAtBarrier(s)

\* Final release at end of file: everything still buffered, in order.
ExtractEventsForced(s) == SortAndExtract(s, s.max_ts)

----------------------------------------------------------------------------
(* Sequence state registry (C4), modelled from the design document. *)

Missing == "missing"
NoDefaults == [present |-> FALSE, timestamp_clock_id |-> 0]
EmptyTable == [k \in {} |-> Missing]

Lookup(table, field, iid) ==
  IF <<field, iid>> \in DOMAIN table THEN table[<<field, iid>>] ELSE Missing

\* A new sequence state starts invalid, with a generation of its own.
NewSequenceState(c) ==
  [valid |-> FALSE, gen |-> Len(c.gens) + 1]

GetIncrementalStateForPacketSequence(c, seq_id) ==
  IF seq_id \in DOMAIN c.seqs THEN c
  ELSE [c EXCEPT !.seqs = [s \in DOMAIN c.seqs \cup {seq_id} |->
                             IF s = seq_id THEN NewSequenceState(c)
                             ELSE c.seqs[s]],
                 !.gens = Append(@, [interned |-> EmptyTable,
                                     defaults |-> NoDefaults])]

IsIncrementalStateValid(c, seq_id) == c.seqs[seq_id].valid

current_generation(c, seq_id) == c.seqs[seq_id].gen

GetTracePacketDefaults(c, seq_id) == c.gens[current_generation(c, seq_id)].defaults

\* What a parser holding generation handle g sees.
GenerationView(c, g) == c.gens[g]

\* Clock tracker: the sequence-scoped clocks of a sequence are invalidated, so
\* that an incremental clock among them accumulates from zero again.
InvalidateSequenceClocks(ck, seq_id) ==
  [ck EXCEPT !.reset_at = [s \in DOMAIN @ \cup {seq_id} |->
                             IF s = seq_id THEN Len(ck.snapshots) ELSE @[s]]]

\* Marks the sequence valid, allocates a fresh generation (empty interned
\* table, no defaults) and invalidates the sequence's clocks in the tracker.
OnIncrementalStateCleared(c, seq_id) ==
  [c EXCEPT !.seqs[seq_id] = [valid |-> TRUE, gen |-> Len(c.gens) + 1],
            !.gens = Append(@, [interned |-> EmptyTable,
                                defaults |-> NoDefaults]),
            !.clock = InvalidateSequenceClocks(@, seq_id)]

OnPacketLoss(c, seq_id) == [c EXCEPT !.seqs[seq_id].valid = FALSE]

\* Mutant of UpdateTracePacketDefaults: the new generation starts with an
\* empty interned table.
UpdateTracePacketDefaults_FreshTable(c, seq_id, view) ==
  LET g == current_generation(c, seq_id) IN
  IF c.gens[g].defaults = view THEN c
  ELSE [c EXCEPT !.seqs[seq_id].gen = Len(c.gens) + 1,
                 !.gens = Append(@, [interned |-> EmptyTable,
                                     defaults |-> view])]

\* Changed defaults allocate a new generation that inherits the interned
\* messages of the previous one and carries the new defaults.
UpdateTracePacketDefaults(c, seq_id, view) ==
  LET g == current_generation(c, seq_id) IN
  IF c.gens[g].defaults = view THEN c
  ELSE [c EXCEPT !.seqs[seq_id].gen = Len(c.gens) + 1,
                 !.gens = Append(@, [interned |-> c.gens[g].interned,
                                     defaults |-> view])]

\* Inserts into the current generation's table; an id already present in the
\* generation keeps its first message.
InternMessage(c, seq_id, field, iid, bytes) ==
  LET g == current_generation(c, seq_id)
      t == c.gens[g].interned IN
  IF <<field, iid>> \in DOMAIN t THEN c
  ELSE [c EXCEPT !.gens[g].interned =
          [k \in DOMAIN t \cup {<<field, iid>>} |->
             IF k = <<field, iid>> THEN bytes ELSE t[k]]]

IncrementStats(c, name) == [c EXCEPT !.stats[name] = @ + 1]

----------------------------------------------------------------------------
(* Clock tracker (C5), modelled from the design document. *)

\* protos::pbzero::BuiltinClock
BUILTIN_CLOCK_REALTIME == 1
BUILTIN_CLOCK_MONOTONIC == 3
BUILTIN_CLOCK_BOOTTIME == 6

\* Sequence-scoped clock ids: the reserved range 64..128.
kSeqScopedFirst == 64
kSeqScopedLast == 128

IsReservedSeqScopedClockId(id) == id >= kSeqScopedFirst /\ id <= kSeqScopedLast

\* ClockTracker::ClockId is 64 bits wide: a pair <<high word, low word>>.
\* A 32-bit clock id of a packet widens to the low word.
ClockId(id) == <<0, id>>

ClockIdLeq(x, y) == x[1] < y[1] \/ (x[1] = y[1] /\ x[2] <= y[2])

\* Mutant of SeqScopedClockIdToGlobal: the sequence id is left out.
SeqScopedClockIdToGlobal_IgnoresSequence(seq_id, id) == <<0, id>>

\* (seq_id << 32) | id
SeqScopedClockIdToGlobal(seq_id, id) == <<seq_id, id>>

\* reset_at: sequence id -> number of snapshots the tracker held when the
\* sequence-scoped clocks of the sequence were last invalidated.
NewClockTracker ==
  [trace_time_clock |-> ClockId(BUILTIN_CLOCK_BOOTTIME), snapshots |-> <<>>,
   incremental |-> {}, reset_at |-> [s \in {} |-> 0]]

SetTraceTimeClock(ck, id) == [ck EXCEPT !.trace_time_clock = id]

\* The absolute value of clock id before a new snapshot: that of the most
\* recent snapshot that mentions it (0 when none does).
RECURSIVE PrevAbsoluteFrom(_, _, _, _)
PrevAbsoluteFrom(snaps, n, floor, id) ==
  IF n <= floor THEN 0
  ELSE IF id \in DOMAIN snaps[n] THEN snaps[n][id]
  ELSE PrevAbsoluteFrom(snaps, n - 1, floor, id)

\* The snapshots up to which clock id was invalidated: those the tracker held
\* at the latest clear of the sequence, for a sequence-scoped clock.
ResetAt(ck, id) ==
  IF id[1] # 0 /\ IsReservedSeqScopedClockId(id[2]) /\ id[1] \in DOMAIN ck.reset_at
  THEN ck.reset_at[id[1]]
  ELSE 0

PrevAbsolute(ck, id) ==
  PrevAbsoluteFrom(ck.snapshots, Len(ck.snapshots), ResetAt(ck, id), id)

\* clocks: sequence of [clock_id, value, unit_multiplier_ns, is_incremental].
\* Returns the tracker with the snapshot added; its id is the new length.
AddSnapshot(ck, clocks) ==
  LET ids == { clocks[i].clock_id : i \in 1..Len(clocks) }
      abs(i) == IF clocks[i].is_incremental
                THEN PrevAbsolute(ck, clocks[i].clock_id)
                       + clocks[i].value * clocks[i].unit_multiplier_ns
                ELSE clocks[i].value * clocks[i].unit_multiplier_ns
      snap == [id \in ids |->
                 LET i == CHOOSE j \in 1..Len(clocks) :
                            /\ clocks[j].clock_id = id
                            /\ \A k \in 1..Len(clocks) :
                                 clocks[k].clock_id = id => k <= j
                 IN abs(i)]
  IN  [ck EXCEPT !.snapshots = Append(@, snap),
                 !.incremental =
                   (@ \ ids) \cup { clocks[i].clock_id : i \in
                                      { j \in 1..Len(clocks) : clocks[j].is_incremental } }]

\* Clocks that share a snapshot with clock a.
ClockNeighbours(ck, a) ==
  { b \in UNION { DOMAIN ck.snapshots[i] : i \in 1..Len(ck.snapshots) } :
      /\ b # a
      /\ \E i \in 1..Len(ck.snapshots) :
           a \in DOMAIN ck.snapshots[i] /\ b \in DOMAIN ck.snapshots[i] }

RECURSIVE SortedIds(_)
SortedIds(S) ==
  IF S = {} THEN <<>>
  ELSE LET m == CHOOSE x \in S : \A y \in S : ClockIdLeq(x, y)
       IN  <<m>> \o SortedIds(S \ {m})

\* Breadth-first search; the paths still to be extended, oldest first.
RECURSIVE FindPath(_, _, _, _)
FindPath(ck, todo, visited, target) ==
  IF todo = <<>> THEN <<>>
  ELSE LET path == Head(todo)
           last == path[Len(path)]
       IN  IF last = target THEN path
           ELSE LET next == SortedIds(ClockNeighbours(ck, last) \ visited)
                IN  FindPath(ck,
                             Tail(todo) \o [i \in 1..Len(next) |->
                                              Append(path, next[i])],
                             visited \cup Range(next), target)

\* The most recent snapshot that holds both clocks of an edge.
EdgeSnapshot(ck, a, b) ==
  CHOOSE i \in 1..Len(ck.snapshots) :
    /\ a \in DOMAIN ck.snapshots[i] /\ b \in DOMAIN ck.snapshots[i]
    /\ \A j \in 1..Len(ck.snapshots) :
         (a \in DOMAIN ck.snapshots[j] /\ b \in DOMAIN ck.snapshots[j]) => j <= i

RECURSIVE ConvertAlong(_, _, _)
ConvertAlong(ck, path, value) ==
  IF Len(path) < 2 THEN value
  ELSE LET snap == ck.snapshots[EdgeSnapshot(ck, path[1], path[2])]
       IN  ConvertAlong(ck, Tail(path), value - snap[path[1]] + snap[path[2]])

\* A value on an incremental clock is a delta on the absolute value of the
\* clock's latest snapshot (the reader converts 0 to get that value back).
AbsoluteValue(ck, id, value) ==
  IF id \in ck.incremental THEN PrevAbsolute(ck, id) + value ELSE value

\* Mutant of ToTraceTime: every conversion goes through an edge of the graph.
ToTraceTime_ThroughAnEdge(ck, id, value) ==
  LET path == FindPath(ck, << <<id>> >>, {id}, ck.trace_time_clock)
  IN  IF Len(path) < 2 THEN [ok |-> FALSE, value |-> 0]
      ELSE [ok |-> TRUE,
            value |-> ConvertAlong(ck, path, AbsoluteValue(ck, id, value))]

\* ToTraceTime: [ok, value]; the caller counts clock_sync_failure when ~ok.
ToTraceTime(ck, id, value) ==
  LET path == FindPath(ck, << <<id>> >>, {id}, ck.trace_time_clock)
  IN  IF path = <<>> THEN [ok |-> FALSE, value |-> 0]
      ELSE [ok |-> TRUE,
            value |-> ConvertAlong(ck, path, AbsoluteValue(ck, id, value))]

----------------------------------------------------------------------------
(* Proto trace reader (C6): proto_trace_reader.cc.                         *)
(*                                                                         *)
(* A decoded TracePacket is a record:                                      *)
(*   bytes_left                  the decoder left trailing bytes           *)
(*   has_seq, seq                trusted_packet_sequence_id                *)
(*   incremental_state_cleared, previous_packet_dropped                    *)
(*   sequence_flags              subset of {SEQ_CLEARED, SEQ_NEEDS}        *)
(*   has_defaults, defaults      trace_packet_defaults (its clock id)      *)
(*   has_interned, interned      interned_data: <<[field, iid, bytes]>>    *)
(*   has_snapshot, snapshot      clock_snapshot                            *)
(*   has_service, service        service_event: set of event names         *)
(*   has_ext, ext_ok             extension_descriptor, the pool's verdict  *)
(*   frame_timeline, chrome      has_frame_timeline_event, chrome payload  *)
(*   has_ts, ts                  timestamp                                 *)
(*   has_clock, clock_id         timestamp_clock_id                        *)
(*   modules                     results of the modules registered on the  *)
(*                               packet's populated fields, dispatch order *)
(*   body                        the packet's bytes                        *)

SEQ_INCREMENTAL_STATE_CLEARED == "SEQ_INCREMENTAL_STATE_CLEARED"
SEQ_NEEDS_INCREMENTAL_STATE == "SEQ_NEEDS_INCREMENTAL_STATE"

\* Proto accessors return the default value of an absent field.
SeqIdOf(p) == IF p.has_seq THEN p.seq ELSE 0
TimestampOf(p) == IF p.has_ts THEN p.ts ELSE 0

\* The reader's context: the objects ParsePacket reads and writes.
Ctx ==
  [latest_timestamp |-> latest_timestamp, seqs |-> seqs, gens |-> gens,
   clock |-> clock, stats |-> stats, metadata |-> metadata,
   snapshot_table |-> snapshot_table, sorter |-> sorter]

OkStatus == "ok"
ErrStatus == "error"

\* What a call returns: the context it leaves, its status, the place it
\* returned from and the number of modules it offered the packet to.
Return(c, st, route) == [c |-> c, status |-> st, route |-> route, offered |-> 0]

\* Mutant of HandleIncrementalStateCleared: the sequence is marked valid but
\* keeps its generation.
HandleIncrementalStateCleared_NoReset(c, p) ==
  IF ~p.has_seq THEN IncrementStats(c, "interned_data_tokenizer_errors")
  ELSE [GetIncrementalStateForPacketSequence(c, SeqIdOf(p))
          EXCEPT !.seqs[SeqIdOf(p)].valid = TRUE]

HandleIncrementalStateCleared(c, p) ==
  IF ~p.has_seq THEN IncrementStats(c, "interned_data_tokenizer_errors")
  ELSE OnIncrementalStateCleared(
         GetIncrementalStateForPacketSequence(c, SeqIdOf(p)), SeqIdOf(p))

\* Mutant of HandlePreviousPacketDropped: the loss invalidates every sequence.
HandlePreviousPacketDropped_EverySequence(c, p) ==
  IF ~p.has_seq THEN IncrementStats(c, "interned_data_tokenizer_errors")
  ELSE LET c1 == GetIncrementalStateForPacketSequence(c, SeqIdOf(p)) IN
       [c1 EXCEPT !.seqs = [s \in DOMAIN c1.seqs |->
                              [c1.seqs[s] EXCEPT !.valid = FALSE]]]

\* Mutant of HandlePreviousPacketDropped: the loss is not recorded.
HandlePreviousPacketDropped_NoLoss(c, p) ==
  IF ~p.has_seq THEN IncrementStats(c, "interned_data_tokenizer_errors")
  ELSE GetIncrementalStateForPacketSequence(c, SeqIdOf(p))

HandlePreviousPacketDropped(c, p) ==
  IF ~p.has_seq THEN IncrementStats(c, "interned_data_tokenizer_errors")
  ELSE OnPacketLoss(
         GetIncrementalStateForPacketSequence(c, SeqIdOf(p)), SeqIdOf(p))

\* Mutant of HandleSequenceMarkers: a loss marker is handled after a clear
\* marker of the same packet.
HandleSequenceMarkers_Both(c, p) ==
  LET c1 == IF \/ p.incremental_state_cleared
               \/ SEQ_INCREMENTAL_STATE_CLEARED \in p.sequence_flags
            THEN HandleIncrementalStateCleared(c, p)
            ELSE c
  IN  IF p.previous_packet_dropped THEN HandlePreviousPacketDropped(c1, p)
      ELSE c1

\* The clear marker, as a field or as a sequence flag, else the loss marker.
HandleSequenceMarkers(c, p) ==
  IF \/ p.incremental_state_cleared
     \/ SEQ_INCREMENTAL_STATE_CLEARED \in p.sequence_flags
  THEN HandleIncrementalStateCleared(c, p)
  ELSE IF p.previous_packet_dropped
  THEN HandlePreviousPacketDropped(c, p)
  ELSE c

\* Mutant of ParseTracePacketDefaults: without a sequence id the defaults go
\* to the state of sequence id 0.
ParseTracePacketDefaults_OnSequenceZero(c, p) ==
  UpdateTracePacketDefaults(
    GetIncrementalStateForPacketSequence(c, SeqIdOf(p)), SeqIdOf(p), p.defaults)

\* Mutant of ParseTracePacketDefaults: the defaults are set on the current
\* generation instead of on a new one.
ParseTracePacketDefaults_InPlace(c, p) ==
  IF ~p.has_seq THEN IncrementStats(c, "interned_data_tokenizer_errors")
  ELSE LET c1 == GetIncrementalStateForPacketSequence(c, SeqIdOf(p)) IN
       [c1 EXCEPT !.gens[current_generation(c1, SeqIdOf(p))].defaults = p.defaults]

ParseTracePacketDefaults(c, p) ==
  IF ~p.has_seq THEN IncrementStats(c, "interned_data_tokenizer_errors")
  ELSE UpdateTracePacketDefaults(
         GetIncrementalStateForPacketSequence(c, SeqIdOf(p)), SeqIdOf(p),
         p.defaults)

RECURSIVE InternAll(_, _, _)
InternAll(c, seq_id, fields) ==
  IF fields = <<>> THEN c
  ELSE InternAll(InternMessage(c, seq_id, Head(fields).field,
                               Head(fields).iid, Head(fields).bytes),
                 seq_id, Tail(fields))

\* Mutant of ParseInternedData: the messages are stored whatever the state of
\* the sequence.
ParseInternedData_StoredWhenInvalid(c, p) ==
  IF ~p.has_seq THEN IncrementStats(c, "interned_data_tokenizer_errors")
  ELSE LET c1 == GetIncrementalStateForPacketSequence(c, SeqIdOf(p)) IN
       IF ~IsIncrementalStateValid(c1, SeqIdOf(p))
       THEN InternAll(IncrementStats(c1, "tokenizer_skipped_packets"),
                      SeqIdOf(p), p.interned)
       ELSE InternAll(c1, SeqIdOf(p), p.interned)

ParseInternedData(c, p) ==
  IF ~p.has_seq THEN IncrementStats(c, "interned_data_tokenizer_errors")
  ELSE LET c1 == GetIncrementalStateForPacketSequence(c, SeqIdOf(p)) IN
       IF ~IsIncrementalStateValid(c1, SeqIdOf(p))
       THEN IncrementStats(c1, "tokenizer_skipped_packets")
       ELSE InternAll(c1, SeqIdOf(p), p.interned)

\* ClockTracker::ToTraceTime as the reader sees it: a failed conversion
\* counts clock_sync_failure.
ClockToTraceTime(c, id, value) ==
  LET r == ToTraceTime(c.clock, id, value) IN
  [c |-> IF r.ok THEN c ELSE IncrementStats(c, "clock_sync_failure"),
   ok |-> r.ok, value |-> r.value]

\* Mutant of SnapshotClocks: the multiplier is handed over as it is read.
SnapshotClocks_MultiplierAsRead(snap, seq_id) ==
  [i \in 1..Len(snap.clocks) |->
     [clock_id |-> IF IsReservedSeqScopedClockId(snap.clocks[i].clock_id)
                   THEN SeqScopedClockIdToGlobal(seq_id, snap.clocks[i].clock_id)
                   ELSE ClockId(snap.clocks[i].clock_id),
      value |-> snap.clocks[i].timestamp,
      unit_multiplier_ns |-> snap.clocks[i].unit_multiplier_ns,
      is_incremental |-> snap.clocks[i].is_incremental]]

\* The clock values of a ClockSnapshot as the reader hands them to the
\* tracker: sequence-scoped ids made global, a zero multiplier read as 1.
SnapshotClocks(snap, seq_id) ==
  [i \in 1..Len(snap.clocks) |->
     [clock_id |-> IF IsReservedSeqScopedClockId(snap.clocks[i].clock_id)
                   THEN SeqScopedClockIdToGlobal(seq_id, snap.clocks[i].clock_id)
                   ELSE ClockId(snap.clocks[i].clock_id),
      value |-> snap.clocks[i].timestamp,
      unit_multiplier_ns |-> IF snap.clocks[i].unit_multiplier_ns # 0
                             THEN snap.clocks[i].unit_multiplier_ns ELSE 1,
      is_incremental |-> snap.clocks[i].is_incremental]]

\* Mutant of InsertSnapshotRows: a clock that does not resolve gets a row too.
RECURSIVE InsertSnapshotRows_EveryClock(_, _, _)
InsertSnapshotRows_EveryClock(c, clocks, snapshot_id) ==
  IF clocks = <<>> THEN c
  ELSE LET clk == Head(clocks)
           r == ClockToTraceTime(c, clk.clock_id,
                                 IF clk.is_incremental THEN 0 ELSE clk.value)
       IN  InsertSnapshotRows_EveryClock(
             [r.c EXCEPT !.snapshot_table =
                Append(@, [ts |-> r.value, clock_id |-> clk.clock_id,
                           clock_value |-> clk.value,
                           snapshot_id |-> snapshot_id])],
             Tail(clocks), snapshot_id)

\* One row per clock of the snapshot that resolves to trace time.
RECURSIVE InsertSnapshotRows(_, _, _)
InsertSnapshotRows(c, clocks, snapshot_id) ==
  IF clocks = <<>> THEN c
  ELSE LET clk == Head(clocks)
           r == ClockToTraceTime(c, clk.clock_id,
                                 IF clk.is_incremental THEN 0 ELSE clk.value)
       IN  IF ~r.ok THEN InsertSnapshotRows(r.c, Tail(clocks), snapshot_id)
           ELSE InsertSnapshotRows(
                  [r.c EXCEPT !.snapshot_table =
                     Append(@, [ts |-> r.value, clock_id |-> clk.clock_id,
                                clock_value |-> clk.value,
                                snapshot_id |-> snapshot_id])],
                  Tail(clocks), snapshot_id)

\* Mutant of ParseClockSnapshot: sequence-scoped clocks are accepted without a
\* sequence id.
ParseClockSnapshot_NoSeqCheck(c, snap, seq_id) ==
  LET c1 == IF snap.primary_trace_clock # 0
            THEN [c EXCEPT !.clock =
                    SetTraceTimeClock(@, ClockId(snap.primary_trace_clock))]
            ELSE c
      clocks == SnapshotClocks(snap, seq_id)
      c2 == [c1 EXCEPT !.clock = AddSnapshot(@, clocks)]
  IN  Return(InsertSnapshotRows(c2, clocks, Len(c2.clock.snapshots)),
             OkStatus, "clock_snapshot")

\* Mutant of ParseClockSnapshot: the clocks are looked through before
\* primary_trace_clock is applied.
ParseClockSnapshot_ChecksFirst(c, snap, seq_id) ==
  IF /\ seq_id = 0
     /\ \E i \in 1..Len(snap.clocks) :
          IsReservedSeqScopedClockId(snap.clocks[i].clock_id)
  THEN Return(c, ErrStatus, "clock_snapshot")
  ELSE LET c1 == IF snap.primary_trace_clock # 0
                 THEN [c EXCEPT !.clock =
                         SetTraceTimeClock(@, ClockId(snap.primary_trace_clock))]
                 ELSE c
           clocks == SnapshotClocks(snap, seq_id)
           c2 == [c1 EXCEPT !.clock = AddSnapshot(@, clocks)]
       IN  Return(InsertSnapshotRows(c2, clocks, Len(c2.clock.snapshots)),
                  OkStatus, "clock_snapshot")

ParseClockSnapshot(c, snap, seq_id) ==
  LET c1 == IF snap.primary_trace_clock # 0
            THEN [c EXCEPT !.clock =
                    SetTraceTimeClock(@, ClockId(snap.primary_trace_clock))]
            ELSE c
  IN  IF /\ seq_id = 0
         /\ \E i \in 1..Len(snap.clocks) :
              IsReservedSeqScopedClockId(snap.clocks[i].clock_id)
      THEN Return(c1, ErrStatus, "clock_snapshot")
      ELSE LET clocks == SnapshotClocks(snap, seq_id)
               c2 == [c1 EXCEPT !.clock = AddSnapshot(@, clocks)]
           IN  Return(InsertSnapshotRows(c2, clocks, Len(c2.clock.snapshots)),
                      OkStatus, "clock_snapshot")

\* Mutant of ParseServiceEvent: the packet's timestamp bounds the release.
ParseServiceEvent_BoundedByTs(c, ts, tse) ==
  IF /\ tse \cap {"all_data_sources_flushed", "read_tracing_buffers_completed"} # {}
     /\ c.sorter.mode # kForceFullSort
  THEN Return([c EXCEPT !.sorter = SortAndExtract(@, ts)], OkStatus,
              "service_event")
  ELSE Return(c, OkStatus, "service_event")

\* Mutant of ParseServiceEvent: tracing_started is a flush barrier too.
ParseServiceEvent_StartedIsBarrier(c, ts, tse) ==
  LET m == { <<"tracing_started_ns", ts>> : e \in tse \cap {"tracing_started"} }
             \cup { <<"tracing_disabled_ns", ts>> : e \in tse \cap {"tracing_disabled"} }
             \cup { <<"all_data_source_started_ns", ts>> :
                      e \in tse \cap {"all_data_sources_started"} }
      c1 == [c EXCEPT !.metadata = @ \cup m]
      c2 == IF tse \cap {"tracing_started", "all_data_sources_flushed"} # {}
            THEN [c1 EXCEPT !.sorter = NotifyFlushEvent(@)]
            ELSE c1
      c3 == IF "read_tracing_buffers_completed" \in tse
            THEN [c2 EXCEPT !.sorter = NotifyReadBufferEvent(@)]
            ELSE c2
  IN  Return(c3, OkStatus, "service_event")

\* The timestamp goes to the metadata only; the sorter is notified without it.
ParseServiceEvent(c, ts, tse) ==
  LET c1 == IF "tracing_started" \in tse
            THEN [c EXCEPT !.metadata = @ \cup {<<"tracing_started_ns", ts>>}]
            ELSE c
      c2 == IF "tracing_disabled" \in tse
            THEN [c1 EXCEPT !.metadata = @ \cup {<<"tracing_disabled_ns", ts>>}]
            ELSE c1
      c3 == IF "all_data_sources_started" \in tse
            THEN [c2 EXCEPT !.metadata =
                    @ \cup {<<"all_data_source_started_ns", ts>>}]
            ELSE c2
      c4 == IF "all_data_sources_flushed" \in tse
            THEN [c3 EXCEPT !.sorter = NotifyFlushEvent(@)]
            ELSE c3
      c5 == IF "read_tracing_buffers_completed" \in tse
            THEN [c4 EXCEPT !.sorter = NotifyReadBufferEvent(@)]
            ELSE c4
  IN  Return(c5, OkStatus, "service_event")

\* The descriptor pool is an external collaborator: its verdict is an input.
ParseExtensionDescriptor(c, p) ==
  Return(c, IF p.ext_ok THEN OkStatus ELSE ErrStatus, "extension_descriptor")

\* Mutant of ResolveTimestamp: a packet without timestamp keeps the field's
\* default value instead of being pinned to the frontier.
ResolveTimestamp_Unpinned(c, p, seq_id) ==
  [kind |-> "ok", c |-> c, ts |-> TimestampOf(p)]

\* Mutant of ResolveTimestamp: the defaults of the sequence are not
\* consulted for the clock id.
ResolveTimestamp_DefaultsIgnored(c, p, seq_id) ==
  LET timestamp_clock_id == IF p.has_clock THEN p.clock_id ELSE 0
  IN  IF ~p.has_ts
      THEN [kind |-> "ok", c |-> c,
            ts |-> Max(c.latest_timestamp, SorterMaxTimestamp(c.sorter))]
      ELSE IF p.chrome /\ (timestamp_clock_id = 0
                           \/ timestamp_clock_id = BUILTIN_CLOCK_MONOTONIC)
      THEN LET r == ClockToTraceTime(c, ClockId(BUILTIN_CLOCK_MONOTONIC), p.ts)
           IN  [kind |-> "ok", c |-> r.c,
                ts |-> IF r.ok THEN r.value ELSE p.ts]
      ELSE IF timestamp_clock_id # 0
      THEN IF IsReservedSeqScopedClockId(timestamp_clock_id) /\ seq_id = 0
           THEN [kind |-> "error", c |-> c, ts |-> p.ts]
           ELSE LET converted_clock_id ==
                      IF IsReservedSeqScopedClockId(timestamp_clock_id)
                      THEN SeqScopedClockIdToGlobal(seq_id, timestamp_clock_id)
                      ELSE ClockId(timestamp_clock_id)
                    r == ClockToTraceTime(c, converted_clock_id, p.ts)
                IN  IF r.ok THEN [kind |-> "ok", c |-> r.c, ts |-> r.value]
                    ELSE [kind |-> "drop", c |-> r.c, ts |-> p.ts]
      ELSE [kind |-> "ok", c |-> c, ts |-> p.ts]

\* Mutant of ResolveTimestamp: a chrome payload is resolved like any other
\* packet.
ResolveTimestamp_ChromeLikeOthers(c, p, seq_id) ==
  LET defaults == GetTracePacketDefaults(c, seq_id)
      timestamp_clock_id ==
        IF p.has_clock THEN p.clock_id
        ELSE IF defaults.present THEN defaults.timestamp_clock_id ELSE 0
  IN  IF ~p.has_ts
      THEN [kind |-> "ok", c |-> c,
            ts |-> Max(c.latest_timestamp, SorterMaxTimestamp(c.sorter))]
      ELSE IF timestamp_clock_id # 0
      THEN IF IsReservedSeqScopedClockId(timestamp_clock_id) /\ seq_id = 0
           THEN [kind |-> "error", c |-> c, ts |-> p.ts]
           ELSE LET converted_clock_id ==
                      IF IsReservedSeqScopedClockId(timestamp_clock_id)
                      THEN SeqScopedClockIdToGlobal(seq_id, timestamp_clock_id)
                      ELSE ClockId(timestamp_clock_id)
                    r == ClockToTraceTime(c, converted_clock_id, p.ts)
                IN  IF r.ok THEN [kind |-> "ok", c |-> r.c, ts |-> r.value]
                    ELSE [kind |-> "drop", c |-> r.c, ts |-> p.ts]
      ELSE [kind |-> "ok", c |-> c, ts |-> p.ts]

\* Mutant of ResolveTimestamp: a timestamp that cannot be converted is kept
\* as it is.
ResolveTimestamp_KeptOnFailure(c, p, seq_id) ==
  LET defaults == GetTracePacketDefaults(c, seq_id)
      timestamp_clock_id ==
        IF p.has_clock THEN p.clock_id
        ELSE IF defaults.present THEN defaults.timestamp_clock_id ELSE 0
  IN  IF ~p.has_ts
      THEN [kind |-> "ok", c |-> c,
            ts |-> Max(c.latest_timestamp, SorterMaxTimestamp(c.sorter))]
      ELSE IF timestamp_clock_id # 0
      THEN IF IsReservedSeqScopedClockId(timestamp_clock_id) /\ seq_id = 0
           THEN [kind |-> "error", c |-> c, ts |-> p.ts]
           ELSE LET converted_clock_id ==
                      IF IsReservedSeqScopedClockId(timestamp_clock_id)
                      THEN SeqScopedClockIdToGlobal(seq_id, timestamp_clock_id)
                      ELSE ClockId(timestamp_clock_id)
                    r == ClockToTraceTime(c, converted_clock_id, p.ts)
                IN  [kind |-> "ok", c |-> r.c,
                     ts |-> IF r.ok THEN r.value ELSE p.ts]
      ELSE [kind |-> "ok", c |-> c, ts |-> p.ts]

\* Timestamp resolution: [kind, ts, c] with kind "ok", "drop" (conversion
\* failed, packet dropped) or "error" (sequence-scoped clock, sequence 0).
ResolveTimestamp(c, p, seq_id) ==
  LET defaults == GetTracePacketDefaults(c, seq_id)
      timestamp_clock_id ==
        IF p.has_clock THEN p.clock_id
        ELSE IF defaults.present THEN defaults.timestamp_clock_id ELSE 0
  IN  IF ~p.has_ts
      THEN [kind |-> "ok", c |-> c,
            ts |-> Max(c.latest_timestamp, SorterMaxTimestamp(c.sorter))]
      ELSE IF p.chrome /\ (timestamp_clock_id = 0
                           \/ timestamp_clock_id = BUILTIN_CLOCK_MONOTONIC)
      THEN LET r == ClockToTraceTime(c, ClockId(BUILTIN_CLOCK_MONOTONIC), p.ts)
           IN  [kind |-> "ok", c |-> r.c,
                ts |-> IF r.ok THEN r.value ELSE p.ts]
      ELSE IF timestamp_clock_id # 0
      THEN IF IsReservedSeqScopedClockId(timestamp_clock_id) /\ seq_id = 0
           THEN [kind |-> "error", c |-> c, ts |-> p.ts]
           ELSE LET converted_clock_id ==
                      IF IsReservedSeqScopedClockId(timestamp_clock_id)
                      THEN SeqScopedClockIdToGlobal(seq_id, timestamp_clock_id)
                      ELSE ClockId(timestamp_clock_id)
                    r == ClockToTraceTime(c, converted_clock_id, p.ts)
                IN  IF r.ok THEN [kind |-> "ok", c |-> r.c, ts |-> r.value]
                    ELSE [kind |-> "drop", c |-> r.c, ts |-> p.ts]
      ELSE [kind |-> "ok", c |-> c, ts |-> p.ts]

\* The sorter entry keeps the generation current at the push.
PushPacket(c, timestamp, seq_id, p) ==
  LET g == current_generation(c, seq_id) IN
  [c EXCEPT !.sorter = PushTracePacket(@, timestamp, g, p, GenerationView(c, g))]

\* Mutant of DispatchOrPush: the packet a module took is pushed as well.
DispatchOrPush_PushedAnyway(c, p, timestamp, seq_id) ==
  LET taken == { i \in 1..Len(p.modules) : p.modules[i] # "ignored" } IN
  IF taken # {}
  THEN LET k == CHOOSE i \in taken : \A j \in taken : i <= j IN
       [c |-> PushPacket(c, timestamp, seq_id, p), route |-> "module",
        offered |-> k,
        status |-> IF p.modules[k] = "error" THEN ErrStatus ELSE OkStatus]
  ELSE [c |-> PushPacket(c, timestamp, seq_id, p), route |-> "pushed",
        offered |-> Len(p.modules), status |-> OkStatus]

\* Module dispatch, then the push when every module ignored the packet.
DispatchOrPush(c, p, timestamp, seq_id) ==
  LET taken == { i \in 1..Len(p.modules) : p.modules[i] # "ignored" } IN
  IF taken # {}
  THEN LET k == CHOOSE i \in taken : \A j \in taken : i <= j IN
       [c |-> c, route |-> "module", offered |-> k,
        status |-> IF p.modules[k] = "error" THEN ErrStatus ELSE OkStatus]
  ELSE [c |-> PushPacket(c, timestamp, seq_id, p), route |-> "pushed",
        offered |-> Len(p.modules), status |-> OkStatus]

\* Mutant of IsCorrupt: trailing bytes are not looked at.
IsCorrupt_Never(p) == FALSE

\* decoder.bytes_left() != 0
IsCorrupt(p) == p.bytes_left

\* Mutant of CheckNeedsIncrementalState: every packet of a sequence that is
\* not valid is skipped, whatever its flags.
CheckNeedsIncrementalState_InvalidAlwaysSkipped(c, p, seq_id) ==
  IF seq_id # 0 /\ ~IsIncrementalStateValid(c, seq_id) THEN "skip"
  ELSE IF SEQ_NEEDS_INCREMENTAL_STATE \notin p.sequence_flags THEN "pass"
  ELSE IF seq_id = 0 THEN "error"
  ELSE "pass"

\* Mutant of CheckNeedsIncrementalState: sequence id zero is skipped like a
\* sequence that is not valid.
CheckNeedsIncrementalState_ZeroSkipped(c, p, seq_id) ==
  IF SEQ_NEEDS_INCREMENTAL_STATE \notin p.sequence_flags THEN "pass"
  ELSE IF ~IsIncrementalStateValid(c, seq_id) THEN "skip"
  ELSE "pass"

\* Mutant of CheckNeedsIncrementalState: the validity of the sequence is not
\* looked at.
CheckNeedsIncrementalState_InvalidPassed(c, p, seq_id) ==
  IF SEQ_NEEDS_INCREMENTAL_STATE \notin p.sequence_flags THEN "pass"
  ELSE IF seq_id = 0 THEN "error"
  ELSE "pass"

\* The SEQ_NEEDS_INCREMENTAL_STATE check: "error" for sequence id zero,
\* "skip" for a sequence whose state is not valid, "pass" otherwise.
CheckNeedsIncrementalState(c, p, seq_id) ==
  IF SEQ_NEEDS_INCREMENTAL_STATE \notin p.sequence_flags THEN "pass"
  ELSE IF seq_id = 0 THEN "error"
  ELSE IF ~IsIncrementalStateValid(c, seq_id) THEN "skip"
  ELSE "pass"

\* Mutant of EarlyRoute: a clock_snapshot does not end the handling of the
\* packet.
EarlyRoute_SnapshotFallsThrough(p) ==
  IF p.has_service THEN "service_event"
  ELSE IF p.has_ext THEN "extension_descriptor"
  ELSE "none"

\* Mutant of EarlyRoute: service_event is tested before clock_snapshot.
EarlyRoute_ServiceFirst(p) ==
  IF p.has_service THEN "service_event"
  ELSE IF p.has_snapshot THEN "clock_snapshot"
  ELSE IF p.has_ext THEN "extension_descriptor"
  ELSE "none"

\* The fields that end the handling of the packet, in the order they are
\* tested.
EarlyRoute(p) ==
  IF p.has_snapshot THEN "clock_snapshot"
  ELSE IF p.has_service THEN "service_event"
  ELSE IF p.has_ext THEN "extension_descriptor"
  ELSE "none"

\* Mutant of UpdateLatestTimestamp: the latest resolved timestamp is kept.
UpdateLatestTimestamp_Overwrites(c, timestamp) ==
  [c EXCEPT !.latest_timestamp = timestamp]

\* latest_timestamp_ = std::max(timestamp, latest_timestamp_)
UpdateLatestTimestamp(c, timestamp) ==
  [c EXCEPT !.latest_timestamp = Max(timestamp, @)]

\* Mutant of IsZeroFrameTimeline: a timestamp that is present is not looked at.
IsZeroFrameTimeline_OnlyWithoutTimestamp(p) == p.frame_timeline /\ ~p.has_ts

\* decoder.has_frame_timeline_event() && decoder.timestamp() == 0
IsZeroFrameTimeline(p) == p.frame_timeline /\ TimestampOf(p) = 0

ParsePacket(c0, p) ==
  IF IsCorrupt(p) THEN Return(c0, ErrStatus, "corrupt") ELSE
  LET seq_id == SeqIdOf(p)
      c1 == GetIncrementalStateForPacketSequence(c0, seq_id)
      c2 == HandleSequenceMarkers(c1, p)
      c3 == IF p.has_defaults THEN ParseTracePacketDefaults(c2, p) ELSE c2
      c4 == IF p.has_interned THEN ParseInternedData(c3, p) ELSE c3
  IN  IF EarlyRoute(p) = "clock_snapshot"
      THEN ParseClockSnapshot(c4, p.snapshot, seq_id)
      ELSE IF EarlyRoute(p) = "service_event"
      THEN ParseServiceEvent(c4, TimestampOf(p), p.service)
      ELSE IF EarlyRoute(p) = "extension_descriptor"
      THEN ParseExtensionDescriptor(c4, p)
      ELSE IF CheckNeedsIncrementalState(c4, p, seq_id) = "error"
      THEN Return(c4, ErrStatus, "needs_incremental_state")
      ELSE IF CheckNeedsIncrementalState(c4, p, seq_id) = "skip"
      THEN Return(IncrementStats(c4, "tokenizer_skipped_packets"), OkStatus,
                  "needs_incremental_state")
      ELSE IF IsZeroFrameTimeline(p)
      THEN Return(IncrementStats(c4, "frame_timeline_event_parser_errors"),
                  OkStatus, "frame_timeline")
      ELSE LET r == ResolveTimestamp(c4, p, seq_id) IN
           IF r.kind = "error" THEN Return(r.c, ErrStatus, "timestamp")
           ELSE IF r.kind = "drop" THEN Return(r.c, OkStatus, "timestamp")
           ELSE DispatchOrPush(
                  UpdateLatestTimestamp(r.c, r.ts), p, r.ts, seq_id)

\* ProtoTraceReader::NotifyEndOfFile does nothing.
ReaderNotifyEndOfFile(c) == c

----------------------------------------------------------------------------
(* Packets *)

BasePacket ==
  [bytes_left |-> FALSE, has_seq |-> TRUE, seq |-> 1,
   incremental_state_cleared |-> FALSE, previous_packet_dropped |-> FALSE,
   sequence_flags |-> {}, has_defaults |-> FALSE, defaults |-> NoDefaults,
   has_interned |-> FALSE, interned |-> <<>>,
   has_snapshot |-> FALSE,
   snapshot |-> [primary_trace_clock |-> 0, clocks |-> <<>>],
   has_service |-> FALSE, service |-> {}, has_ext |-> FALSE, ext_ok |-> TRUE,
   frame_timeline |-> FALSE, chrome |-> FALSE, has_ts |-> FALSE, ts |-> 0,
   has_clock |-> FALSE, clock_id |-> 0, modules |-> <<>>, body |-> "event"]

Timestamps == 0..MaxTs

\* An event with a timestamp on the trace clock, and one without timestamp.
DatedPacket(t) == [BasePacket EXCEPT !.has_ts = TRUE, !.ts = t]
UndatedPacket == BasePacket

\* A TracingServiceEvent packet with timestamp t.
ServicePacket(t, events) ==
  [BasePacket EXCEPT !.has_ts = TRUE, !.ts = t, !.has_service = TRUE,
                     !.service = events, !.body = "service"]

\* The packets of the sorter specification.
SorterPackets ==
  { DatedPacket(t) : t \in Timestamps } \cup {UndatedPacket}
    \cup { ServicePacket(t, {"all_data_sources_flushed"}) : t \in Timestamps }
    \cup { ServicePacket(t, {"read_tracing_buffers_completed"}) : t \in Timestamps }

----------------------------------------------------------------------------
(* Tokenizer (C3) and Parse.  The tokenizer is modelled from the design    *)
(* document over a two-bit byte: the high bit of a byte of the length      *)
(* prefix is the continuation bit, the low bit is its payload.             *)

Bytes == 0..3
kVarIntContinuation == 2
kMaxVarIntBytes == 2

\* The varint at the start of buf: its value and size, "incomplete" when buf
\* ends inside it, "malformed" when it runs past the largest encoding.
ReadVarInt(buf) ==
  IF buf = <<>> THEN [kind |-> "incomplete", value |-> 0, size |-> 0]
  ELSE IF buf[1] < kVarIntContinuation
  THEN [kind |-> "ok", value |-> buf[1], size |-> 1]
  ELSE IF Len(buf) < kMaxVarIntBytes
  THEN [kind |-> "incomplete", value |-> 0, size |-> 0]
  ELSE IF buf[2] < kVarIntContinuation
  THEN [kind |-> "ok",
        value |-> (buf[1] - kVarIntContinuation) + kVarIntContinuation * buf[2],
        size |-> 2]
  ELSE [kind |-> "malformed", value |-> 0, size |-> 0]

\* TracePacket::Decoder over a packet body.  The first byte is the only
\* field: a timestamped event, or the service event of a flush; what follows
\* it is left unparsed (bytes_left() != 0).  An empty body is an event without
\* timestamp.
DecodePacket(body) ==
  LET blob == [BasePacket EXCEPT !.has_seq = FALSE, !.seq = 0, !.body = body] IN
  IF body = <<>> THEN blob
  ELSE LET first == IF body[1] = 3
                    THEN [blob EXCEPT !.has_service = TRUE,
                                      !.service = {"all_data_sources_flushed"}]
                    ELSE [blob EXCEPT !.has_ts = TRUE, !.ts = body[1]]
       IN  [first EXCEPT !.bytes_left = Len(body) > 1]

\* What Tokenize returns: the context, the carry buffer, the status and the
\* packets that were handed to the callback, with the route each one took.
TokenizeResult(c, carry, st, done) ==
  [c |-> c, tok |-> carry, status |-> st, done |-> done]

RECURSIVE Tokenize(_, _, _)

\* Mutant of TokenizeNext: the status the callback returns is not looked at.
TokenizeNext_GoesOn(r, p, rest, done) ==
  Tokenize(r.c, rest,
           Append(done, [p |-> p, route |-> r.route, status |-> r.status]))

\* The callback has returned r for packet p: a fatal status ends the call,
\* otherwise the tokenizer goes on with the rest of the buffer.
TokenizeNext(r, p, rest, done) ==
  IF r.status # OkStatus
  THEN TokenizeResult(r.c, <<>>, r.status,
                      Append(done, [p |-> p, route |-> r.route, status |-> r.status]))
  ELSE Tokenize(r.c, rest,
                Append(done, [p |-> p, route |-> r.route, status |-> r.status]))

\* The packet whose body follows a length prefix of len.size bytes.
TokenizePacket(c, buf, first, last, done) ==
  TokenizeNext(ParsePacket(c, DecodePacket(SubSeq(buf, first, last))),
               DecodePacket(SubSeq(buf, first, last)),
               SubSeq(buf, last + 1, Len(buf)), done)

\* Emits every whole packet of buf to the callback, in stream order, until
\* one is fatal; the bytes of an incomplete packet stay in the carry buffer.
TokenizeFrom(c, buf, len, done) ==
  IF len.kind = "incomplete" THEN TokenizeResult(c, buf, OkStatus, done)
  ELSE IF len.kind = "malformed" THEN TokenizeResult(c, <<>>, ErrStatus, done)
  ELSE IF Len(buf) < len.size + len.value
  THEN TokenizeResult(c, buf, OkStatus, done)
  ELSE TokenizePacket(c, buf, len.size + 1, len.size + len.value, done)

Tokenize(c, buf, done) == TokenizeFrom(c, buf, ReadVarInt(buf), done)

\* Mutant of Parse: every call tokenizes with a tokenizer of its own.
Parse_FreshTokenizer(c, carry, chunk) == Tokenize(c, chunk, <<>>)

\* ProtoTraceReader::Parse: the chunk goes to the reader's tokenizer, which
\* still holds what the earlier chunks left over, with ParsePacket as callback.
Parse(c, carry, chunk) == Tokenize(c, carry \o chunk, <<>>)

----------------------------------------------------------------------------
(* The trace processor instance: construction, Parse, NotifyEndOfFile *)

StatNames ==
  {"tokenizer_skipped_packets", "interned_data_tokenizer_errors",
   "frame_timeline_event_parser_errors", "clock_sync_failure"}

NoStep == [kind |-> "none", p |-> BasePacket, status |-> OkStatus,
           route |-> "none", offered |-> 0]

\* The views the parsers of the entries released by this step were given.
NewlyParsed(before, c) ==
  [i \in 1..(Len(c.sorter.released) - Len(before.released)) |->
     GenerationView(c, c.sorter.released[Len(before.released) + i].gen)]

\* The state a call leaves behind.
Commit(c) ==
  /\ latest_timestamp' = c.latest_timestamp
  /\ seqs' = c.seqs
  /\ gens' = c.gens
  /\ clock' = c.clock
  /\ stats' = c.stats
  /\ metadata' = c.metadata
  /\ snapshot_table' = c.snapshot_table
  /\ sorter' = c.sorter
  /\ parsed' = parsed \o NewlyParsed(sorter, c)

\* No query file has been handed to the shell.
NoQueryRun ==
  [queries |-> <<>>, dcheck |-> FALSE, outcome |-> "none", status |-> OkStatus,
   error |-> [msg |-> "", query |-> 0], has_output |-> FALSE,
   output |-> <<>>, executed |-> <<>>]

\* The context of a newly created instance.
NewCtx(mode) ==
  [latest_timestamp |-> 0, seqs |-> [s \in {} |-> [valid |-> FALSE, gen |-> 0]],
   gens |-> <<>>, clock |-> NewClockTracker, stats |-> [n \in StatNames |-> 0],
   metadata |-> {}, snapshot_table |-> <<>>, sorter |-> NewSorter(mode)]

\* TraceProcessor::CreateInstance(config).
InitInstance(mode) ==
  /\ config_mode = mode
  /\ latest_timestamp = 0
  /\ seqs = [s \in {} |-> [valid |-> FALSE, gen |-> 0]]
  /\ gens = <<>>
  /\ clock = NewClockTracker
  /\ stats = [n \in StatNames |-> 0]
  /\ metadata = {}
  /\ snapshot_table = <<>>
  /\ sorter = NewSorter(mode)
  /\ tok = <<>>
  /\ status = OkStatus
  /\ eof = FALSE
  /\ steps = 0
  /\ npushed = 0
  /\ since_clear = [s \in {} |-> {}]
  /\ parsed = <<>>
  /\ cur = NoStep
  /\ prev = NewCtx(mode)
  /\ dropped_since = {}
  /\ snap_log = <<>>
  /\ cleared_at = [s \in {} |-> 0]
  /\ shadow = NewCtx(kDefaultHeuristics)

ClearMarked(p) ==
  p.incremental_state_cleared \/ SEQ_INCREMENTAL_STATE_CLEARED \in p.sequence_flags

InternedIds(p) ==
  IF p.has_interned
  THEN { <<p.interned[i].field, p.interned[i].iid>> : i \in 1..Len(p.interned) }
  ELSE {}

\* History: the ids each sequence has received since its latest clear.
SinceClearAfter(since, p) ==
  IF p.bytes_left \/ ~p.has_seq THEN since
  ELSE IF ClearMarked(p)
  THEN [s \in DOMAIN since \cup {p.seq} |->
          IF s = p.seq THEN InternedIds(p) ELSE since[s]]
  ELSE IF p.seq \in DOMAIN since
  THEN [since EXCEPT ![p.seq] = @ \cup InternedIds(p)]
  ELSE since

\* History: the sequences that lost a packet since their latest clear.
DroppedSinceAfter(dropped, p) ==
  IF p.bytes_left \/ ~p.has_seq THEN dropped
  ELSE IF ClearMarked(p) THEN dropped \ {p.seq}
  ELSE IF p.previous_packet_dropped THEN dropped \cup {p.seq}
  ELSE dropped

\* History: the clock snapshots that were added, with the emitting sequence.
SnapLogAfter(log, p, route, st) ==
  IF route = "clock_snapshot" /\ st = OkStatus
  THEN Append(log, [seq |-> SeqIdOf(p), snapshot |-> p.snapshot])
  ELSE log

\* History: the number of snapshots added before the latest clear of each
\* sequence (the markers of a packet are handled before its clock_snapshot).
ClearedAtAfter(at, log, p) ==
  IF p.bytes_left \/ ~p.has_seq \/ ~ClearMarked(p) THEN at
  ELSE [s \in DOMAIN at \cup {p.seq} |-> IF s = p.seq THEN Len(log) ELSE at[s]]

\* The state ParsePacket leaves behind when it returns r for packet p.
PacketHandled(r, p) ==
  /\ Commit(r.c)
  /\ snap_log' = SnapLogAfter(snap_log, p, r.route, r.status)
  /\ cleared_at' = ClearedAtAfter(cleared_at, snap_log, p)
  /\ prev' = Ctx
  /\ dropped_since' = DroppedSinceAfter(dropped_since, p)
  /\ status' = r.status
  /\ cur' = [kind |-> "packet", p |-> p, status |-> r.status,
             route |-> r.route, offered |-> r.offered]
  /\ since_clear' = SinceClearAfter(since_clear, p)
  /\ npushed' = IF r.route = "pushed" THEN npushed + 1 ELSE npushed

\* The packet goes to this instance only.
PacketParsed(r, p) ==
  /\ PacketHandled(r, p)
  /\ shadow' = shadow

\* The tokenizer hands one packet to ParsePacket.
ParsePacketStep(packets, bound) ==
  /\ ~eof
  /\ status = OkStatus
  /\ steps < bound
  /\ \E p \in packets : PacketParsed(ParsePacket(Ctx, p), p)
  /\ steps' = steps + 1
  /\ UNCHANGED <<force_full_sort, config_mode, tok, eof, input, stream, shell>>

\* notify_end_of_file(): the reader's hook, then the sorter's final release.
NotifyEndOfFile ==
  /\ ~eof
  /\ status = OkStatus
  /\ LET c == ReaderNotifyEndOfFile(Ctx) IN
     Commit([c EXCEPT !.sorter = ExtractEventsForced(@)])
  /\ eof' = TRUE
  /\ cur' = [NoStep EXCEPT !.kind = "eof"]
  /\ prev' = Ctx
  /\ shadow' = [shadow EXCEPT !.sorter = ExtractEventsForced(@)]
  /\ UNCHANGED <<force_full_sort, config_mode, tok, status, input, stream,
                 steps, npushed, since_clear, dropped_since, snap_log, cleared_at,
                 shell>>

\* The shell derives the sorting mode from --full-sort; an embedder may also
\* configure the deprecated windowed mode.
InitConfig ==
  \E f \in BOOLEAN, mode \in SortingModes :
    /\ mode = SortingModeOfFlag(f) \/ (~f /\ mode = kForceFlushPeriodWindowedSort)
    /\ force_full_sort = f
    /\ InitInstance(mode)
    /\ shell = NoQueryRun

\* Packets arrive one at a time.
Init ==
  /\ InitConfig
  /\ input = <<>>
  /\ stream = <<>>

ParseSorterPacket == ParsePacketStep(SorterPackets, MaxPackets)

Next == ParseSorterPacket \/ NotifyEndOfFile

Spec == Init /\ [][Next]_vars

----------------------------------------------------------------------------
(* Properties of the sorter as the reader drives it *)

Released == sorter.released
Buffered == sorter.queue

HeuristicMode == config_mode # kForceFullSort
FullSortMode == force_full_sort \/ config_mode = kForceFullSort

NonDecreasing(run) ==
  \A i, j \in 1..Len(run) : i < j => run[i].ts <= run[j].ts

\* The entries handed over by the latest release pass.
LastPass == SelectSeq(Released, LAMBDA e : e.pass = sorter.passes)

\* Every entry ever pushed, buffered or released.
Pushed ==
  { [ts |-> e.ts, idx |-> e.idx, undated |-> e.undated] :
      e \in Range(Buffered) \cup Range(Released) }

CurIsBarrier ==
  /\ cur.kind = "packet"
  /\ cur.route = "service_event"
  /\ cur.p.service \cap {"all_data_sources_flushed",
                         "read_tracing_buffers_completed"} # {}

C2_FullSortNonDecreasing == FullSortMode => NonDecreasing(Released)

C2_Witness ==
  /\ FullSortMode /\ eof /\ Len(Released) >= 3
  /\ \E i, j \in 1..Len(Released) : i < j /\ Released[i].idx > Released[j].idx

\* C3: with --full-sort the barriers release nothing: every pushed entry stays
\* buffered until NotifyEndOfFile, which releases all of them in one pass.
C3_FullSortSinglePass ==
  FullSortMode =>
    /\ ~eof => Released = <<>> /\ Len(Buffered) = npushed
    /\ eof => /\ Buffered = <<>>
              /\ Len(Released) = npushed
              /\ \A i \in 1..Len(Released) : Released[i].pass = 1

C3_Witness ==
  FullSortMode /\ ~eof /\ CurIsBarrier /\ Len(Buffered) >= 2

C5_StableTies ==
  \A i, j \in 1..Len(Released) :
    (i < j /\ Released[i].ts = Released[j].ts) => Released[i].idx < Released[j].idx

\* An undated packet pinned to a pushed timestamp, released after the entry of
\* that timestamp and after an entry pushed later with a smaller timestamp.
C5_Witness ==
  \E i, j, k \in 1..Len(Released) :
    /\ k < i /\ i < j
    /\ Released[i].ts = Released[j].ts
    /\ Released[j].undated /\ ~Released[i].undated
    /\ Released[k].idx > Released[j].idx

C7_EndOfFileReleasesAll ==
  eof =>
    /\ Buffered = <<>>
    /\ Len(Released) = npushed
    /\ { Released[i].idx : i \in 1..Len(Released) } = 1..npushed
    /\ NonDecreasing(LastPass)

C7_Witness ==
  /\ eof /\ HeuristicMode /\ sorter.passes >= 2
  /\ Len(LastPass) >= 2 /\ Len(Released) > Len(LastPass)
  /\ \E i, j \in 1..Len(LastPass) : i < j /\ LastPass[i].idx > LastPass[j].idx

----------------------------------------------------------------------------
(* Specification of the sequence state: packets of two sequences that clear, *)
(* lose, intern and set defaults, each an event pushed to the sorter.        *)

DefaultsA == [present |-> TRUE, timestamp_clock_id |-> 0]
DefaultsB == [present |-> TRUE, timestamp_clock_id |-> BUILTIN_CLOCK_BOOTTIME]

InternFoo == << [field |-> 1, iid |-> 1, bytes |-> "foo"] >>
InternBar == << [field |-> 1, iid |-> 1, bytes |-> "bar"],
                [field |-> 1, iid |-> 2, bytes |-> "baz"] >>

InternedKeys == { <<1, 1>>, <<1, 2>> }

WithInterned(p, fields) == [p EXCEPT !.has_interned = TRUE, !.interned = fields]
WithDefaults(p, d) == [p EXCEPT !.has_defaults = TRUE, !.defaults = d]
OnSequence(p, s) == [p EXCEPT !.seq = s]

ClearedPacket == [BasePacket EXCEPT !.sequence_flags = {SEQ_INCREMENTAL_STATE_CLEARED}]
ClearedFieldPacket == [BasePacket EXCEPT !.incremental_state_cleared = TRUE]
DroppedPacket == [BasePacket EXCEPT !.previous_packet_dropped = TRUE]

SeqPackets ==
  LET marks == {BasePacket, ClearedPacket, DroppedPacket}
      one == marks
               \cup { WithInterned(m, InternFoo) : m \in marks }
               \cup { WithInterned(m, InternBar) : m \in marks }
               \cup { WithDefaults(BasePacket, DefaultsA),
                      WithDefaults(BasePacket, DefaultsB),
                      WithDefaults(WithInterned(ClearedPacket, InternFoo), DefaultsA),
                      WithInterned(ClearedFieldPacket, InternBar),
                      ServicePacket(0, {"all_data_sources_flushed"}) }
  IN  one \cup { OnSequence(WithInterned(ClearedPacket, InternFoo), 2),
                 OnSequence(WithInterned(BasePacket, InternBar), 2) }

InitSeq ==
  /\ force_full_sort = FALSE
  /\ InitInstance(SortingModeOfFlag(FALSE))
  /\ shell = NoQueryRun
  /\ input = <<>>
  /\ stream = <<>>

ParseSeqPacket == ParsePacketStep(SeqPackets, MaxSeqPackets)

NextSeq == ParseSeqPacket \/ NotifyEndOfFile

SpecSeq == InitSeq /\ [][NextSeq]_vars

C10_MissingAfterClear ==
  \A s \in DOMAIN since_clear :
    \A k \in InternedKeys \ since_clear[s] :
      Lookup(gens[seqs[s].gen].interned, k[1], k[2]) = Missing

\* A cleared sequence that has not interned id 1 again, while an event pushed
\* before the clear still resolves it.
C10_Witness ==
  \E s \in DOMAIN since_clear :
    /\ <<1, 1>> \notin since_clear[s]
    /\ Lookup(gens[seqs[s].gen].interned, 1, 1) = Missing
    /\ \E e \in Range(Buffered) :
         e.seq = s /\ Lookup(gens[e.gen].interned, 1, 1) # Missing

----------------------------------------------------------------------------
(* The stream fed in chunks *)

RECURSIVE SeqsUpTo(_, _)
SeqsUpTo(S, n) ==
  IF n = 0 THEN {<<>>}
  ELSE LET shorter == SeqsUpTo(S, n - 1) IN
       shorter \cup { Append(q, b) : q \in shorter, b \in S }

Streams == SeqsUpTo(Bytes, MaxStreamLen)

InitChunks ==
  /\ InitConfig
  /\ stream \in Streams
  /\ input = stream

RECURSIVE SinceClearAfterAll(_, _)
SinceClearAfterAll(since, done) ==
  IF done = <<>> THEN since
  ELSE SinceClearAfterAll(SinceClearAfter(since, Head(done).p), Tail(done))

RECURSIVE DroppedSinceAfterAll(_, _)
DroppedSinceAfterAll(dropped, done) ==
  IF done = <<>> THEN dropped
  ELSE DroppedSinceAfterAll(DroppedSinceAfter(dropped, Head(done).p), Tail(done))

RECURSIVE SnapLogAfterAll(_, _)
SnapLogAfterAll(log, done) ==
  IF done = <<>> THEN log
  ELSE SnapLogAfterAll(SnapLogAfter(log, Head(done).p, Head(done).route,
                                    Head(done).status), Tail(done))

RECURSIVE ClearedAtAfterAll(_, _, _)
ClearedAtAfterAll(at, log, done) ==
  IF done = <<>> THEN at
  ELSE ClearedAtAfterAll(ClearedAtAfter(at, log, Head(done).p),
                         SnapLogAfter(log, Head(done).p, Head(done).route,
                                      Head(done).status),
                         Tail(done))

\* The state a Parse call on the first n bytes of the input leaves behind.
ChunkParsed(r, n) ==
  /\ Commit(r.c)
  /\ snap_log' = SnapLogAfterAll(snap_log, r.done)
  /\ cleared_at' = ClearedAtAfterAll(cleared_at, snap_log, r.done)
  /\ prev' = Ctx
  /\ dropped_since' = DroppedSinceAfterAll(dropped_since, r.done)
  /\ tok' = r.tok
  /\ status' = r.status
  /\ input' = SubSeq(input, n + 1, Len(input))
  /\ cur' = [kind |-> "chunk", size |-> n, carry |-> tok,
             status |-> r.status, done |-> r.done]
  /\ since_clear' = SinceClearAfterAll(since_clear, r.done)
  /\ npushed' = npushed + Len(SelectSeq(r.done, LAMBDA d : d.route = "pushed"))
  /\ shadow' = shadow

\* The caller hands the next bytes of the stream to Parse, in a chunk of any
\* size, and stops at the first error status.
ParseChunk ==
  /\ ~eof
  /\ status = OkStatus
  /\ \E n \in 1..Len(input) : ChunkParsed(Parse(Ctx, tok, SubSeq(input, 1, n)), n)
  /\ steps' = steps + 1
  /\ UNCHANGED <<force_full_sort, config_mode, eof, stream, shell>>

\* The caller ends the stream once every byte has been fed.
NotifyEndOfStream ==
  /\ input = <<>>
  /\ NotifyEndOfFile

NextChunks == ParseChunk \/ NotifyEndOfStream

SpecChunks == InitChunks /\ [][NextChunks]_vars

\* The (timestamp, packet bytes) pairs handed downstream, in release order.
ReleasedPairs(s) == [i \in 1..Len(s.released) |-> <<s.released[i].ts, s.released[i].body>>]

\* The same stream fed to a new instance with one Parse call.
WholeStream == Parse(NewCtx(config_mode), <<>>, stream)

StreamFed == input = <<>> \/ status # OkStatus

CurChunk ==
  SubSeq(stream, Len(stream) - Len(input) - cur.size + 1, Len(stream) - Len(input))

\* The framing of a buffer: the bodies of its whole packets in stream order,
\* up to a length prefix that is malformed, if there is one.
RECURSIVE Framed(_)
Framed(buf) ==
  LET len == ReadVarInt(buf) IN
  IF len.kind = "malformed" THEN [bodies |-> <<>>, malformed |-> TRUE]
  ELSE IF len.kind = "incomplete" \/ Len(buf) < len.size + len.value
  THEN [bodies |-> <<>>, malformed |-> FALSE]
  ELSE LET rest == Framed(SubSeq(buf, len.size + len.value + 1, Len(buf))) IN
       [bodies |-> <<SubSeq(buf, len.size + 1, len.size + len.value)>> \o rest.bodies,
        malformed |-> rest.malformed]

\* ParsePacket on the packets of bodies, one after the other, up to and
\* including the first that is fatal: the context, the status and the
\* number of packets processed.
RECURSIVE FeedUntilFatal(_, _, _)
FeedUntilFatal(c, bodies, n) ==
  IF bodies = <<>> THEN [c |-> c, status |-> OkStatus, n |-> n]
  ELSE LET r == ParsePacket(c, DecodePacket(Head(bodies))) IN
       IF r.status # OkStatus THEN [c |-> r.c, status |-> r.status, n |-> n + 1]
       ELSE FeedUntilFatal(r.c, Tail(bodies), n + 1)

ChunkCase == cur.kind = "chunk"

CurFramed == Framed(cur.carry \o CurChunk)

CurFed == FeedUntilFatal(prev, CurFramed.bodies, 0)

----------------------------------------------------------------------------
(* Sequence validity and fatal packets *)

NoSequence(p) == [p EXCEPT !.has_seq = FALSE, !.seq = 0]
NeedsState(p) == [p EXCEPT !.sequence_flags = @ \cup {SEQ_NEEDS_INCREMENTAL_STATE}]
Cleared(p) == [p EXCEPT !.sequence_flags = @ \cup {SEQ_INCREMENTAL_STATE_CLEARED}]
ClearedField(p) == [p EXCEPT !.incremental_state_cleared = TRUE]
Dropped(p) == [p EXCEPT !.previous_packet_dropped = TRUE]
Corrupt(p) == [p EXCEPT !.bytes_left = TRUE]
WithSnapshot(p, snap) == [p EXCEPT !.has_snapshot = TRUE, !.snapshot = snap]
WithService(p, events) == [p EXCEPT !.has_service = TRUE, !.service = events]
WithExtension(p, ok) == [p EXCEPT !.has_ext = TRUE, !.ext_ok = ok]
WithModules(p, results) == [p EXCEPT !.modules = results]

EmptySnapshot == [primary_trace_clock |-> 0, clocks |-> <<>>]

ValidPackets ==
  LET marked == UNION { { Cleared(OnSequence(BasePacket, s)),
                          ClearedField(OnSequence(BasePacket, s)),
                          Dropped(OnSequence(BasePacket, s)),
                          Dropped(ClearedField(OnSequence(BasePacket, s))) }
                        : s \in {1, 2} }
                  \cup { Cleared(NoSequence(BasePacket)),
                         Dropped(NoSequence(BasePacket)) }
      needs  == { NeedsState(NoSequence(BasePacket)),
                  NeedsState(BasePacket),
                  NeedsState(WithModules(OnSequence(BasePacket, 2), <<"consumed">>)),
                  NeedsState(Dropped(BasePacket)),
                  NeedsState(Cleared(BasePacket)),
                  NeedsState(WithInterned(BasePacket, InternFoo)),
                  NeedsState(WithSnapshot(NoSequence(BasePacket), EmptySnapshot)),
                  NeedsState(WithSnapshot(BasePacket, EmptySnapshot)),
                  NeedsState(WithService(NoSequence(BasePacket),
                                         {"tracing_started"})),
                  NeedsState(WithExtension(NoSequence(BasePacket), TRUE)),
                  NeedsState(WithExtension(NoSequence(BasePacket), FALSE)) }
      corrupt == { Corrupt(NeedsState(Cleared(BasePacket))),
                   Corrupt(WithSnapshot(Dropped(OnSequence(BasePacket, 2)),
                                        EmptySnapshot)),
                   Corrupt(WithInterned(DatedPacket(1), InternFoo)) }
  IN  marked \cup needs \cup corrupt \cup {BasePacket}

InitValid ==
  /\ force_full_sort = FALSE
  /\ InitInstance(SortingModeOfFlag(FALSE))
  /\ shell = NoQueryRun
  /\ input = <<>>
  /\ stream = <<>>

ParseValidPacket == ParsePacketStep(ValidPackets, MaxValidPackets)

NextValid == ParseValidPacket \/ NotifyEndOfFile

SpecValid == InitValid /\ [][NextValid]_vars

CurPacket == cur.kind = "packet"

\* The packet is handled by a route that precedes the
\* SEQ_NEEDS_INCREMENTAL_STATE check.
RoutedEarlier(p) == p.has_snapshot \/ p.has_service \/ p.has_ext

\* C11: a sequence's state is valid exactly when a packet marked
\* incremental_state_cleared (field or flag) has been processed on it and no
\* previous_packet_dropped packet has been processed on it since the latest
\* such packet; a sequence without any such packet is not valid.
C11_ValidIffClearedAndNoLossSince ==
  \A s \in DOMAIN seqs :
    seqs[s].valid <=> (s \in DOMAIN since_clear /\ s \notin dropped_since)

\* A sequence that was cleared and then lost a packet, next to one that was
\* cleared and is valid.
C11_Witness ==
  \E s, t \in DOMAIN seqs :
    /\ s \in DOMAIN since_clear /\ s \in dropped_since /\ ~seqs[s].valid
    /\ t \in DOMAIN since_clear /\ seqs[t].valid

\* C12 as stated: a packet with the needs_incremental_state flag and sequence
\* id 0 returns an error status whatever else it carries.
C12_NeedsStateOnSequenceZeroFatal ==
  (CurPacket /\ SEQ_NEEDS_INCREMENTAL_STATE \in cur.p.sequence_flags
     /\ SeqIdOf(cur.p) = 0)
    => cur.status = ErrStatus

\* C12: a packet with the needs_incremental_state flag and sequence id 0 that
\* carries no clock_snapshot, service_event or extension_descriptor returns an
\* error status; with clock_snapshot or service_event the packet is routed
\* there and the flag is never examined.
C12_NeedsStateOnSequenceZeroFatalUnlessRouted ==
  /\ (CurPacket /\ SEQ_NEEDS_INCREMENTAL_STATE \in cur.p.sequence_flags
        /\ SeqIdOf(cur.p) = 0 /\ ~RoutedEarlier(cur.p))
       => cur.status = ErrStatus /\ cur.route = "needs_incremental_state"
  /\ (CurPacket /\ ~cur.p.bytes_left /\ RoutedEarlier(cur.p))
       => cur.route # "needs_incremental_state"

C12_Witness ==
  /\ CurPacket
  /\ SEQ_NEEDS_INCREMENTAL_STATE \in cur.p.sequence_flags
  /\ SeqIdOf(cur.p) = 0
  /\ ~RoutedEarlier(cur.p)
  /\ cur.status = ErrStatus
  /\ steps >= 2

\* The packet reached the SEQ_NEEDS_INCREMENTAL_STATE check with a non-zero
\* sequence id whose state is not valid (the packet's own clear or loss
\* marker is applied before the check).
SkippedCase ==
  /\ CurPacket
  /\ ~cur.p.bytes_left
  /\ ~RoutedEarlier(cur.p)
  /\ SEQ_NEEDS_INCREMENTAL_STATE \in cur.p.sequence_flags
  /\ SeqIdOf(cur.p) # 0
  /\ ~seqs[SeqIdOf(cur.p)].valid

\* C13: a packet with the needs_incremental_state flag on a non-zero sequence
\* whose state is not valid returns ok, counts tokenizer_skipped_packets, is
\* offered to no module, is not pushed, and leaves latest_timestamp alone.
C13_NeedsStateOnInvalidSequenceSkipped ==
  SkippedCase =>
    /\ cur.status = OkStatus
    /\ stats["tokenizer_skipped_packets"] =
         prev.stats["tokenizer_skipped_packets"] + 1
           + (IF cur.p.has_interned THEN 1 ELSE 0)
    /\ cur.offered = 0
    /\ cur.route = "needs_incremental_state"
    /\ sorter = prev.sorter
    /\ latest_timestamp = prev.latest_timestamp

\* A skipped packet that a module would have consumed, on a sequence other
\* than the one that was cleared before.
C13_Witness ==
  /\ SkippedCase
  /\ cur.p.modules # <<>>
  /\ \E t \in DOMAIN seqs : seqs[t].valid
  /\ stats["tokenizer_skipped_packets"] = prev.stats["tokenizer_skipped_packets"] + 1

\* C14: a packet whose decoding leaves trailing bytes returns an error status
\* and changes nothing: no sequence state, clock snapshot, stat,
\* latest_timestamp or sorter entry.
C14_CorruptPacketHasNoEffect ==
  (CurPacket /\ cur.p.bytes_left) =>
    /\ cur.status = ErrStatus
    /\ Ctx = prev

\* A corrupt packet that carries a clear marker, after other packets set up
\* sequence state.
C14_Witness ==
  /\ CurPacket
  /\ cur.p.bytes_left
  /\ ClearMarked(cur.p)
  /\ status = ErrStatus
  /\ steps >= 2
  /\ DOMAIN seqs # {}
  /\ \A s \in DOMAIN seqs : ~seqs[s].valid

----------------------------------------------------------------------------
(* Clocks *)

kUnknownClock == 555

Clk(id, ts) ==
  [clock_id |-> id, timestamp |-> ts, unit_multiplier_ns |-> 0,
   is_incremental |-> FALSE]
IncrementalClk(id, ts) == [Clk(id, ts) EXCEPT !.is_incremental = TRUE]
Snap(primary, clocks) == [primary_trace_clock |-> primary, clocks |-> clocks]

WithTimestamp(p, t) == [p EXCEPT !.has_ts = TRUE, !.ts = t]
WithClock(p, id) == [p EXCEPT !.has_clock = TRUE, !.clock_id = id]
Chrome(p) == [p EXCEPT !.chrome = TRUE]

ClockSnapshotPackets ==
  { WithSnapshot(OnSequence(BasePacket, 1),
                 Snap(0, <<Clk(BUILTIN_CLOCK_BOOTTIME, 10), Clk(kSeqScopedFirst, 0)>>)),
    WithSnapshot(OnSequence(BasePacket, 2),
                 Snap(0, <<Clk(BUILTIN_CLOCK_BOOTTIME, 20), Clk(kSeqScopedFirst, 1)>>)),
    WithSnapshot(NoSequence(BasePacket),
                 Snap(0, <<Clk(BUILTIN_CLOCK_BOOTTIME, 0), Clk(BUILTIN_CLOCK_MONOTONIC, 0)>>)),
    WithSnapshot(NoSequence(BasePacket),
                 Snap(0, <<Clk(BUILTIN_CLOCK_BOOTTIME, 2), Clk(BUILTIN_CLOCK_REALTIME, 0)>>)),
    WithSnapshot(NoSequence(BasePacket),
                 Snap(0, <<Clk(BUILTIN_CLOCK_MONOTONIC, 1), Clk(BUILTIN_CLOCK_REALTIME, 1)>>)),
    WithSnapshot(NoSequence(BasePacket),
                 Snap(0, <<Clk(BUILTIN_CLOCK_BOOTTIME, 1), Clk(kSeqScopedFirst, 0)>>)),
    WithModules(WithTimestamp(
                  WithSnapshot(OnSequence(BasePacket, 1),
                               Snap(BUILTIN_CLOCK_MONOTONIC,
                                    <<Clk(BUILTIN_CLOCK_MONOTONIC, 5),
                                      Clk(BUILTIN_CLOCK_BOOTTIME, 7)>>)), 2),
                <<"consumed">>),
    WithSnapshot(NoSequence(BasePacket),
                 Snap(0, <<Clk(BUILTIN_CLOCK_BOOTTIME, 3),
                           IncrementalClk(BUILTIN_CLOCK_REALTIME, 1)>>)) }

ClockEventPackets ==
  { WithClock(WithTimestamp(OnSequence(BasePacket, 1), 1), kSeqScopedFirst),
    WithClock(WithTimestamp(OnSequence(BasePacket, 1), 2), kSeqScopedFirst),
    WithClock(WithTimestamp(OnSequence(BasePacket, 2), 1), kSeqScopedFirst),
    WithClock(WithTimestamp(NoSequence(BasePacket), 1), kSeqScopedFirst),
    WithClock(WithTimestamp(NoSequence(BasePacket), 1), kSeqScopedLast),
    WithClock(NoSequence(BasePacket), kSeqScopedFirst),
    WithModules(WithClock(WithTimestamp(BasePacket, 1), kUnknownClock),
                <<"consumed">>),
    WithClock(WithTimestamp(BasePacket, 1), BUILTIN_CLOCK_BOOTTIME),
    WithClock(WithTimestamp(BasePacket, 2), BUILTIN_CLOCK_MONOTONIC),
    Chrome(WithClock(WithTimestamp(BasePacket, 1), BUILTIN_CLOCK_MONOTONIC)),
    Chrome(WithTimestamp(BasePacket, 2)),
    BasePacket }

ClockPackets == ClockSnapshotPackets \cup ClockEventPackets

InitClock ==
  /\ force_full_sort = FALSE
  /\ InitInstance(SortingModeOfFlag(FALSE))
  /\ shell = NoQueryRun
  /\ input = <<>>
  /\ stream = <<>>

ParseClockPacket == ParsePacketStep(ClockPackets, MaxClockPackets)

NextClock == ParseClockPacket \/ NotifyEndOfFile

SpecClock == InitClock /\ [][NextClock]_vars

\* The packet passes the SEQ_NEEDS_INCREMENTAL_STATE check and the frame
\* timeline workaround, so that its timestamp is resolved.
ReachesTimestamp ==
  /\ CurPacket
  /\ ~cur.p.bytes_left
  /\ ~RoutedEarlier(cur.p)
  /\ \/ SEQ_NEEDS_INCREMENTAL_STATE \notin cur.p.sequence_flags
     \/ SeqIdOf(cur.p) # 0 /\ seqs[SeqIdOf(cur.p)].valid
  /\ ~(cur.p.frame_timeline /\ TimestampOf(cur.p) = 0)

\* The clock id of the packet's timestamp: its own, else that of the
\* sequence's defaults, else 0.
EffectiveClockId(p) ==
  IF p.has_clock THEN p.clock_id
  ELSE LET d == gens[seqs[SeqIdOf(p)].gen].defaults
       IN  IF d.present THEN d.timestamp_clock_id ELSE 0

ListsSeqScopedClock(snap) ==
  \E i \in 1..Len(snap.clocks) : IsReservedSeqScopedClockId(snap.clocks[i].clock_id)

\* The clock a packet's timestamp is converted from.
ConvertedClockId(p) ==
  IF IsReservedSeqScopedClockId(EffectiveClockId(p))
  THEN <<SeqIdOf(p), EffectiveClockId(p)>>
  ELSE ClockId(EffectiveClockId(p))

LastPushed == sorter.queue[Len(sorter.queue)]

\* C15: with sequence id 0, a packet whose timestamp is on a sequence-scoped
\* clock (64..128) and a ClockSnapshot that lists a sequence-scoped clock both
\* return an error status; nothing is pushed and no snapshot is added.
C15_SeqScopedClockWithoutSequenceFatal ==
  /\ (ReachesTimestamp /\ cur.p.has_ts /\ SeqIdOf(cur.p) = 0
        /\ IsReservedSeqScopedClockId(EffectiveClockId(cur.p)))
       => cur.status = ErrStatus /\ sorter = prev.sorter
  /\ (CurPacket /\ ~cur.p.bytes_left /\ cur.p.has_snapshot /\ SeqIdOf(cur.p) = 0
        /\ ListsSeqScopedClock(cur.p.snapshot))
       => /\ cur.status = ErrStatus
          /\ clock.snapshots = prev.clock.snapshots
          /\ snapshot_table = prev.snapshot_table

\* A ClockSnapshot with a sequence-scoped clock and no sequence id is
\* rejected after a sequence of its own has had one accepted.
C15_Witness ==
  /\ CurPacket
  /\ cur.p.has_snapshot
  /\ SeqIdOf(cur.p) = 0
  /\ ListsSeqScopedClock(cur.p.snapshot)
  /\ status = ErrStatus
  /\ \E i \in 1..Len(snap_log) :
       snap_log[i].seq # 0 /\ ListsSeqScopedClock(snap_log[i].snapshot)

\* The timestamp of the packet is on a non-zero clock that does not convert
\* to trace time.
UnconvertibleCase ==
  /\ ReachesTimestamp
  /\ cur.p.has_ts
  /\ EffectiveClockId(cur.p) # 0
  /\ ~(IsReservedSeqScopedClockId(EffectiveClockId(cur.p)) /\ SeqIdOf(cur.p) = 0)
  /\ ~ToTraceTime(prev.clock, ConvertedClockId(cur.p), cur.p.ts).ok

Dropped_ ==
  /\ cur.status = OkStatus
  /\ cur.route = "timestamp"
  /\ cur.offered = 0
  /\ stats["clock_sync_failure"] = prev.stats["clock_sync_failure"] + 1
  /\ sorter = prev.sorter
  /\ latest_timestamp = prev.latest_timestamp
  /\ clock = prev.clock

ChromeOnMonotonic(p) ==
  p.chrome /\ EffectiveClockId(p) = BUILTIN_CLOCK_MONOTONIC

ClockValueIn(snap, id) ==
  LET i == CHOOSE j \in 1..Len(snap.clocks) :
             /\ snap.clocks[j].clock_id = id
             /\ \A k \in 1..Len(snap.clocks) : snap.clocks[k].clock_id = id => k <= j
  IN  snap.clocks[i].timestamp

Lists(snap, id) == \E i \in 1..Len(snap.clocks) : snap.clocks[i].clock_id = id

\* The snapshots sequence s emitted that list its local clock c.
SnapshotsBy(s, c) ==
  { i \in 1..Len(snap_log) : snap_log[i].seq = s /\ Lists(snap_log[i].snapshot, c) }

LatestSnapshotBy(s, c) ==
  snap_log[CHOOSE i \in SnapshotsBy(s, c) : \A j \in SnapshotsBy(s, c) : j <= i].snapshot

\* The timestamp of the packet is on a sequence-scoped clock of a non-zero
\* sequence, and the trace-time clock is BOOTTIME.
SeqScopedCase ==
  /\ ReachesTimestamp
  /\ cur.p.has_ts
  /\ IsReservedSeqScopedClockId(EffectiveClockId(cur.p))
  /\ SeqIdOf(cur.p) # 0
  /\ clock.trace_time_clock = ClockId(BUILTIN_CLOCK_BOOTTIME)

\* C17: a packet on sequence s with sequence-scoped clock c and timestamp t
\* is pushed with B + (t - L), where (BOOTTIME = B, c = L) is the latest
\* snapshot sequence s emitted for c; when s emitted none, the packet is
\* dropped, whatever other sequences asserted for the same local id.
C17_SeqScopedClockPerSequence ==
  SeqScopedCase =>
    LET s == SeqIdOf(cur.p)
        c == EffectiveClockId(cur.p) IN
    IF SnapshotsBy(s, c) = {}
    THEN cur.route = "timestamp" /\ cur.status = OkStatus /\ sorter = prev.sorter
    ELSE Lists(LatestSnapshotBy(s, c), BUILTIN_CLOCK_BOOTTIME) =>
           /\ cur.route \in {"pushed", "module"}
           /\ cur.route = "pushed" =>
                LastPushed.ts =
                  ClockValueIn(LatestSnapshotBy(s, c), BUILTIN_CLOCK_BOOTTIME)
                    + (cur.p.ts - ClockValueIn(LatestSnapshotBy(s, c), c))

\* Two sequences asserted different values for the same local clock id, and
\* a packet of one of them is pushed with the offset of its own sequence.
C17_Witness ==
  /\ SeqScopedCase
  /\ cur.route = "pushed"
  /\ \E t \in 1..2 : t # SeqIdOf(cur.p) /\ SnapshotsBy(t, EffectiveClockId(cur.p)) # {}
  /\ SnapshotsBy(SeqIdOf(cur.p), EffectiveClockId(cur.p)) # {}
  /\ LastPushed.ts = 20

\* The rows the latest ParseClockSnapshot call inserted.
NewRows ==
  SubSeq(snapshot_table, Len(prev.snapshot_table) + 1, Len(snapshot_table))

\* The absolute values two clocks have in one snapshot convert to the same
\* trace time (the absolute value is converted as it is stored).
SnapshotValuesAlike ==
  \A i \in 1..Len(clock.snapshots) :
    \A a, b \in DOMAIN clock.snapshots[i] :
      LET ra == ToTraceTime([clock EXCEPT !.incremental = {}], a,
                            clock.snapshots[i][a])
          rb == ToTraceTime([clock EXCEPT !.incremental = {}], b,
                            clock.snapshots[i][b])
      IN  (ra.ok /\ rb.ok) => ra.value = rb.value

\* The rows of the snapshot just added carry one trace timestamp: the
\* assertion in ParseClockSnapshot.
SnapshotRowsAlike ==
  (CurPacket /\ cur.route = "clock_snapshot" /\ cur.status = OkStatus) =>
    \A i, j \in 1..Len(NewRows) : NewRows[i].ts = NewRows[j].ts

\* C18 as stated: the absolute values of two clocks of one snapshot convert
\* to the same trace time, and the clocks of the snapshot just added that
\* resolve at all resolve to one trace timestamp.
C18_SnapshotClocksResolveAlike ==
  SnapshotValuesAlike /\ SnapshotRowsAlike

ConvertedValues == 0..MaxTs

\* The timestamp of the packet is on the trace-time clock itself.
OnTraceClockCase ==
  /\ ReachesTimestamp
  /\ cur.p.has_ts
  /\ ClockId(EffectiveClockId(cur.p)) = clock.trace_time_clock

C20_ClockSnapshotNotForwarded ==
  (CurPacket /\ ~cur.p.bytes_left /\ cur.p.has_snapshot) =>
    /\ cur.route = "clock_snapshot"
    /\ cur.offered = 0
    /\ sorter = prev.sorter
    /\ latest_timestamp = prev.latest_timestamp
    /\ cur.status = OkStatus =>
         Len(clock.snapshots) = Len(prev.clock.snapshots) + 1

\* A clock snapshot packet that has a timestamp beyond latest_timestamp and
\* a field a module would consume, after a packet was pushed.
C20_Witness ==
  /\ CurPacket
  /\ cur.p.has_snapshot
  /\ cur.status = OkStatus
  /\ cur.p.has_ts
  /\ cur.p.ts > latest_timestamp
  /\ cur.p.modules # <<>>
  /\ Len(sorter.queue) >= 1
  /\ Len(clock.snapshots) = Len(prev.clock.snapshots) + 1

\* A clock snapshot was added by the latest packet.
SnapshotAdded ==
  /\ CurPacket
  /\ cur.route = "clock_snapshot"
  /\ cur.status = OkStatus

\* The id under which the tracker knows clock i of the packet's snapshot.
GlobalClockId(p, i) ==
  IF IsReservedSeqScopedClockId(p.snapshot.clocks[i].clock_id)
  THEN <<SeqIdOf(p), p.snapshot.clocks[i].clock_id>>
  ELSE ClockId(p.snapshot.clocks[i].clock_id)

\* The trace time clock i of the packet's snapshot resolves to, if any.
ResolvedClock(p, i) ==
  ToTraceTime(clock, GlobalClockId(p, i),
              IF p.snapshot.clocks[i].is_incremental THEN 0
              ELSE p.snapshot.clocks[i].timestamp)

\* The clocks of the packet's snapshot that resolve, in the packet's order.
RECURSIVE ResolvingClocks(_, _)
ResolvingClocks(p, i) ==
  IF i > Len(p.snapshot.clocks) THEN <<>>
  ELSE (IF ResolvedClock(p, i).ok THEN <<i>> ELSE <<>>) \o ResolvingClocks(p, i + 1)

RowOf(p, i, ts) ==
  [ts |-> ts, clock_id |-> GlobalClockId(p, i),
   clock_value |-> p.snapshot.clocks[i].timestamp,
   snapshot_id |-> Len(clock.snapshots)]

----------------------------------------------------------------------------
(* Service events and module dispatch *)

ServiceEventSets ==
  { {}, {"tracing_started"}, {"all_data_sources_started"}, {"tracing_disabled"},
    {"all_data_sources_flushed"}, {"read_tracing_buffers_completed"},
    {"all_data_sources_flushed", "read_tracing_buffers_completed"},
    {"tracing_started", "all_data_sources_flushed"},
    {"tracing_started", "all_data_sources_started", "tracing_disabled",
     "all_data_sources_flushed", "read_tracing_buffers_completed"} }

\* What a module returns from TokenizePacket.
ModuleResults ==
  { <<"ignored">>, <<"ignored", "ignored">>, <<"consumed">>, <<"error">>,
    <<"consumed", "ignored">>, <<"ignored", "consumed", "error">>,
    <<"ignored", "error", "consumed">> }

RoutePackets ==
  { DatedPacket(t) : t \in {0, 2} } \cup {UndatedPacket}
    \cup { ServicePacket(t, e) : t \in {1, 3}, e \in ServiceEventSets }
    \cup { WithModules(ServicePacket(1, {"tracing_started"}), <<"consumed">>) }
    \cup { WithModules(DatedPacket(1), m) : m \in ModuleResults }
    \cup { WithModules(UndatedPacket, <<"ignored", "consumed">>) }

InitRoute ==
  /\ InitConfig
  /\ input = <<>>
  /\ stream = <<>>

ParseRoutePacket == ParsePacketStep(RoutePackets, MaxRoutePackets)

NextRoute == ParseRoutePacket \/ NotifyEndOfFile

SpecRoute == InitRoute /\ [][NextRoute]_vars

\* The latest packet carries service_event and no clock_snapshot.
ServiceCase ==
  /\ CurPacket
  /\ ~cur.p.bytes_left
  /\ ~cur.p.has_snapshot
  /\ cur.p.has_service

Count(b) == IF b THEN 1 ELSE 0

\* The metadata a service event publishes with the packet timestamp.
Published(p) ==
  { <<"tracing_started_ns", TimestampOf(p)>> : e \in p.service \cap {"tracing_started"} }
    \cup { <<"tracing_disabled_ns", TimestampOf(p)>> :
             e \in p.service \cap {"tracing_disabled"} }
    \cup { <<"all_data_source_started_ns", TimestampOf(p)>> :
             e \in p.service \cap {"all_data_sources_started"} }

\* C21: a packet that carries service_event is not pushed and not offered to
\* a module; the sorter receives a flush notification exactly when
\* all_data_sources_flushed is set and a read-buffer notification exactly
\* when read_tracing_buffers_completed is set; without either of them the
\* sorter is left as it was, and tracing_started, all_data_sources_started
\* and tracing_disabled publish the packet timestamp as metadata.
C21_ServiceEventIsBarrierOnly ==
  ServiceCase =>
    /\ cur.route = "service_event"
    /\ cur.status = OkStatus
    /\ cur.offered = 0
    /\ sorter.packet_idx = prev.sorter.packet_idx
    /\ Len(sorter.queue) + Len(sorter.released)
         = Len(prev.sorter.queue) + Len(prev.sorter.released)
    /\ sorter.flush_events = prev.sorter.flush_events
         + Count("all_data_sources_flushed" \in cur.p.service)
    /\ sorter.read_buffer_events = prev.sorter.read_buffer_events
         + Count("read_tracing_buffers_completed" \in cur.p.service)
    /\ cur.p.service \cap {"all_data_sources_flushed",
                           "read_tracing_buffers_completed"} = {}
         => sorter = prev.sorter
    /\ metadata = prev.metadata \cup Published(cur.p)
    /\ latest_timestamp = prev.latest_timestamp

\* A service event with tracing_started and all_data_sources_flushed arrives
\* while entries are buffered: the timestamp is published and the buffered
\* entries are released.
C21_Witness ==
  /\ ServiceCase
  /\ {"tracing_started", "all_data_sources_flushed"} \subseteq cur.p.service
  /\ prev.sorter.queue # <<>>
  /\ sorter.queue = <<>>
  /\ <<"tracing_started_ns", cur.p.ts>> \in metadata
  /\ sorter.flush_events = 1

\* The first module that does not ignore the packet, 0 when all ignore it.
FirstTaker(p) ==
  IF \A i \in 1..Len(p.modules) : p.modules[i] = "ignored" THEN 0
  ELSE CHOOSE i \in 1..Len(p.modules) :
         /\ p.modules[i] # "ignored"
         /\ \A j \in 1..(i - 1) : p.modules[j] = "ignored"

\* The latest packet went through timestamp resolution to module dispatch.
DispatchCase ==
  /\ CurPacket
  /\ ~cur.p.bytes_left
  /\ ~RoutedEarlier(cur.p)
  /\ cur.route \in {"module", "pushed"}

\* C22: the modules are offered the packet in order up to the first that
\* does not ignore it; that module's status is the result and the packet is
\* not pushed.  When every module ignores it, all of them were offered the
\* packet and it is pushed once.
C22_FirstTakerElsePushedOnce ==
  DispatchCase =>
    IF FirstTaker(cur.p) # 0
    THEN /\ cur.route = "module"
         /\ cur.offered = FirstTaker(cur.p)
         /\ cur.status = IF cur.p.modules[FirstTaker(cur.p)] = "error"
                         THEN ErrStatus ELSE OkStatus
         /\ sorter = prev.sorter
    ELSE /\ cur.route = "pushed"
         /\ cur.offered = Len(cur.p.modules)
         /\ cur.status = OkStatus
         /\ sorter.packet_idx = prev.sorter.packet_idx + 1
         /\ sorter.queue = Append(prev.sorter.queue, LastPushed)
         /\ sorter.released = prev.sorter.released

\* A packet is taken by its second module, with a third one registered,
\* after another packet was pushed past two modules that ignored it.
C22_Witness ==
  /\ DispatchCase
  /\ Len(cur.p.modules) = 3
  /\ FirstTaker(cur.p) = 2
  /\ cur.offered = 2
  /\ Len(sorter.queue) >= 1
  /\ npushed >= 1

----------------------------------------------------------------------------
(* The items of incremental state: clear and loss markers, defaults and     *)
(* interned data, on two sequences and on packets without sequence id.      *)

AllItems(p) ==
  WithInterned(WithDefaults(Dropped(Cleared(p)), DefaultsB), InternBar)

ItemPackets ==
  LET one  == BasePacket
      two  == OnSequence(BasePacket, 2)
      none == NoSequence(BasePacket)
  IN  { one, Cleared(one), ClearedField(one), Dropped(one),
        Dropped(Cleared(one)), WithInterned(one, InternFoo),
        WithInterned(one, InternBar), WithDefaults(one, DefaultsB),
        WithInterned(Dropped(ClearedField(one)), InternBar),
        WithInterned(Dropped(one), InternFoo),
        NeedsState(WithInterned(one, InternFoo)), AllItems(one) }
      \cup { Cleared(two), Dropped(two), WithInterned(two, InternBar),
             WithInterned(Cleared(two), InternFoo),
             WithDefaults(two, DefaultsA) }
      \cup { none, Cleared(none), Dropped(none), Dropped(ClearedField(none)),
             WithInterned(none, InternFoo), WithDefaults(none, DefaultsB),
             AllItems(none) }

InitItems ==
  /\ force_full_sort = FALSE
  /\ InitInstance(kDefaultHeuristics)
  /\ shell = NoQueryRun
  /\ input = <<>>
  /\ stream = <<>>

ParseItemPacket == ParsePacketStep(ItemPackets, MaxItemPackets)

NextItems == ParseItemPacket \/ NotifyEndOfFile

SpecItems == InitItems /\ [][NextItems]_vars

\* The latest packet was decoded in full and names its sequence.
OnSequenceCase ==
  /\ CurPacket
  /\ ~cur.p.bytes_left
  /\ cur.p.has_seq

\* C24: the items of a packet on sequence s leave the valid bit and the
\* generation of every other sequence as they were, and every generation
\* other than the current one of s keeps its interned table and defaults.
C24_ItemsChangeOwnSequenceOnly ==
  OnSequenceCase =>
    /\ \A t \in DOMAIN prev.seqs \ {cur.p.seq} : seqs[t] = prev.seqs[t]
    /\ \A g \in 1..Len(prev.gens) :
         (cur.p.seq \in DOMAIN prev.seqs => g # prev.seqs[cur.p.seq].gen)
           => gens[g] = prev.gens[g]

\* Sequence 2 clears and interns while sequence 1 is valid and holds interned
\* messages; sequence 1 keeps them.
C24_Witness ==
  /\ OnSequenceCase
  /\ cur.p.seq = 2
  /\ ClearMarked(cur.p)
  /\ cur.p.has_interned
  /\ 1 \in DOMAIN seqs
  /\ seqs[1].valid
  /\ DOMAIN gens[seqs[1].gen].interned # {}
  /\ DOMAIN gens[seqs[2].gen].interned # DOMAIN gens[seqs[1].gen].interned

\* The latest packet was decoded in full and has no
\* trusted_packet_sequence_id.
NoSequenceCase ==
  /\ CurPacket
  /\ ~cur.p.bytes_left
  /\ ~cur.p.has_seq

\* No sequence that existed before the packet has changed, and no generation.
SequencesUntouched ==
  /\ \A t \in DOMAIN prev.seqs : seqs[t] = prev.seqs[t]
  /\ SubSeq(gens, 1, Len(prev.gens)) = prev.gens

\* C25 as stated: each of the four items on a packet without sequence id
\* counts one interned_data_tokenizer_errors, and no sequence changes.
C25_EachItemWithoutSequenceCounted ==
  NoSequenceCase =>
    /\ stats["interned_data_tokenizer_errors"] =
         prev.stats["interned_data_tokenizer_errors"]
           + Count(ClearMarked(cur.p)) + Count(cur.p.previous_packet_dropped)
           + Count(cur.p.has_defaults) + Count(cur.p.has_interned)
    /\ SequencesUntouched

\* C25: on a packet without sequence id, a clear marker, a loss marker on a
\* packet that has no clear marker, trace_packet_defaults and interned_data
\* each count one interned_data_tokenizer_errors, and no sequence changes; a
\* loss marker next to a clear marker is not counted.
C25_HandledItemWithoutSequenceCounted ==
  NoSequenceCase =>
    /\ stats["interned_data_tokenizer_errors"] =
         prev.stats["interned_data_tokenizer_errors"]
           + Count(ClearMarked(cur.p) \/ cur.p.previous_packet_dropped)
           + Count(cur.p.has_defaults) + Count(cur.p.has_interned)
    /\ SequencesUntouched

\* A packet without sequence id carries defaults and interned data, after
\* sequence 1 became valid and interned messages.
C25_Witness ==
  /\ NoSequenceCase
  /\ cur.p.has_defaults
  /\ cur.p.has_interned
  /\ 1 \in DOMAIN prev.seqs
  /\ prev.seqs[1].valid
  /\ DOMAIN prev.gens[prev.seqs[1].gen].interned # {}
  /\ stats["interned_data_tokenizer_errors"]
       >= prev.stats["interned_data_tokenizer_errors"] + 2

\* The latest packet has a clear marker and a loss marker.
ClearAndLossCase ==
  /\ OnSequenceCase
  /\ ClearMarked(cur.p)
  /\ cur.p.previous_packet_dropped

\* C28: a packet with a clear marker and previous_packet_dropped is a clear
\* only: the sequence is valid after it, on a generation allocated by the
\* packet that holds nothing but the packet's own interned data.
C28_ClearAndLossIsClear ==
  ClearAndLossCase =>
    /\ seqs[cur.p.seq].valid
    /\ seqs[cur.p.seq].gen > Len(prev.gens)
    /\ DOMAIN gens[seqs[cur.p.seq].gen].interned = InternedIds(cur.p)
    /\ stats["tokenizer_skipped_packets"] = prev.stats["tokenizer_skipped_packets"]
    /\ cur.p.seq \notin dropped_since

\* The packet arrives on a sequence that had lost a packet and was not valid.
C28_Witness ==
  /\ ClearAndLossCase
  /\ cur.p.seq \in DOMAIN prev.seqs
  /\ ~prev.seqs[cur.p.seq].valid
  /\ DOMAIN prev.gens[prev.seqs[cur.p.seq].gen].interned # {}
  /\ cur.p.has_interned
  /\ seqs[cur.p.seq].valid

\* The latest packet carries interned_data on a sequence.
InternedCase ==
  /\ OnSequenceCase
  /\ cur.p.has_interned

\* The state of the sequence when the interned data of the packet is parsed:
\* after the markers of the packet itself.
ValidAtInterned(p) ==
  IF ClearMarked(p) THEN TRUE
  ELSE IF p.previous_packet_dropped THEN FALSE
  ELSE p.seq \in DOMAIN prev.seqs /\ prev.seqs[p.seq].valid

\* The interned table of the sequence when the interned data is parsed.
TableAtInterned(p) ==
  IF ClearMarked(p) \/ p.seq \notin DOMAIN prev.seqs THEN EmptyTable
  ELSE prev.gens[prev.seqs[p.seq].gen].interned

\* The message the packet gives first for a key.
FirstBytes(p, key) ==
  p.interned[CHOOSE i \in 1..Len(p.interned) :
               /\ <<p.interned[i].field, p.interned[i].iid>> = key
               /\ \A j \in 1..(i - 1) :
                    <<p.interned[j].field, p.interned[j].iid>> # key].bytes

\* The packet is skipped by the SEQ_NEEDS_INCREMENTAL_STATE check as well.
AlsoSkipped(p) ==
  /\ ~RoutedEarlier(p)
  /\ SEQ_NEEDS_INCREMENTAL_STATE \in p.sequence_flags

\* C30: interned_data on a sequence that is not valid leaves the interned
\* table of the sequence as it was and counts one tokenizer_skipped_packets
\* (next to the one of a needs_incremental_state flag on the same packet);
\* on a valid sequence every submessage is in the table afterwards, the new
\* ids with the message of the packet, and nothing is counted.
C30_InternedDataOnlyOnValidSequence ==
  InternedCase =>
    LET table == gens[seqs[cur.p.seq].gen].interned IN
    IF ~ValidAtInterned(cur.p)
    THEN /\ table = TableAtInterned(cur.p)
         /\ stats["tokenizer_skipped_packets"] =
              prev.stats["tokenizer_skipped_packets"] + 1
                + Count(AlsoSkipped(cur.p))
    ELSE /\ DOMAIN table = DOMAIN TableAtInterned(cur.p) \cup InternedIds(cur.p)
         /\ \A k \in DOMAIN TableAtInterned(cur.p) : table[k] = TableAtInterned(cur.p)[k]
         /\ \A k \in InternedIds(cur.p) \ DOMAIN TableAtInterned(cur.p) :
              table[k] = FirstBytes(cur.p, k)
         /\ stats["tokenizer_skipped_packets"] = prev.stats["tokenizer_skipped_packets"]

\* Interned data arrives on a sequence that lost a packet after it had
\* interned messages: the table keeps what it had and the packet is counted.
C30_Witness ==
  /\ InternedCase
  /\ ~ValidAtInterned(cur.p)
  /\ cur.p.seq \in DOMAIN prev.seqs
  /\ DOMAIN TableAtInterned(cur.p) # {}
  /\ InternedIds(cur.p) \ DOMAIN TableAtInterned(cur.p) # {}
  /\ stats["tokenizer_skipped_packets"] = prev.stats["tokenizer_skipped_packets"] + 1

\* The latest packet is on a sequence that lost a packet, by this packet or
\* by an earlier one, and has not been cleared since.
AfterLossCase ==
  /\ OnSequenceCase
  /\ cur.p.seq \in dropped_since

\* The interned table of the packet's sequence before the packet.
TableBefore(p) ==
  IF p.seq \in DOMAIN prev.seqs THEN prev.gens[prev.seqs[p.seq].gen].interned
  ELSE EmptyTable

\* C31: from a previous_packet_dropped on a sequence until the next clear of
\* that sequence, the sequence is not valid; a packet of the sequence leaves
\* the interned table of the sequence as it was; and a packet without the
\* needs_incremental_state flag is not stopped by the check of that flag:
\* an event is pushed to the sorter.
C31_AfterLossForwardedButNotInterned ==
  /\ \A s \in dropped_since : s \in DOMAIN seqs /\ ~seqs[s].valid
  /\ AfterLossCase =>
       /\ gens[seqs[cur.p.seq].gen].interned = TableBefore(cur.p)
       /\ SEQ_NEEDS_INCREMENTAL_STATE \notin cur.p.sequence_flags =>
            /\ cur.route # "needs_incremental_state"
            /\ (~RoutedEarlier(cur.p) /\ ~cur.p.frame_timeline /\ ~cur.p.has_ts
                  /\ cur.p.modules = <<>>) =>
                 /\ cur.route = "pushed"
                 /\ cur.status = OkStatus
                 /\ sorter.packet_idx = prev.sorter.packet_idx + 1

\* A sequence interned messages, lost a packet, and then sends interned data
\* with an id it has not interned: the event is pushed, the id stays missing.
C31_Witness ==
  /\ AfterLossCase
  /\ ~cur.p.previous_packet_dropped
  /\ cur.p.has_interned
  /\ DOMAIN TableBefore(cur.p) # {}
  /\ InternedIds(cur.p) \ DOMAIN gens[seqs[cur.p.seq].gen].interned # {}
  /\ cur.route = "pushed"
  /\ ~seqs[cur.p.seq].valid

----------------------------------------------------------------------------
(* The clock of a timestamp: the packet's own, else the one of the defaults *)

DefaultsRealtime == [present |-> TRUE, timestamp_clock_id |-> BUILTIN_CLOCK_REALTIME]
DefaultsUnknown == [present |-> TRUE, timestamp_clock_id |-> kUnknownClock]

DefaultsPackets ==
  LET dated == WithTimestamp(BasePacket, 1) IN
  { WithSnapshot(NoSequence(BasePacket),
                 Snap(0, <<Clk(BUILTIN_CLOCK_BOOTTIME, 2),
                           Clk(BUILTIN_CLOCK_REALTIME, 0)>>)),
    dated,
    WithDefaults(dated, DefaultsRealtime),
    WithDefaults(dated, DefaultsA),
    WithDefaults(BasePacket, DefaultsRealtime),
    WithDefaults(BasePacket, DefaultsUnknown),
    WithClock(dated, BUILTIN_CLOCK_BOOTTIME),
    WithClock(WithDefaults(dated, DefaultsUnknown), BUILTIN_CLOCK_REALTIME),
    Cleared(dated),
    Cleared(WithDefaults(dated, DefaultsRealtime)),
    OnSequence(dated, 2),
    WithDefaults(OnSequence(BasePacket, 2), DefaultsUnknown),
    WithDefaults(NoSequence(dated), DefaultsRealtime) }

InitDefaults ==
  /\ force_full_sort = FALSE
  /\ InitInstance(kDefaultHeuristics)
  /\ shell = NoQueryRun
  /\ input = <<>>
  /\ stream = <<>>

ParseDefaultsPacket == ParsePacketStep(DefaultsPackets, MaxDefaultsPackets)

NextDefaults == ParseDefaultsPacket \/ NotifyEndOfFile

SpecDefaults == InitDefaults /\ [][NextDefaults]_vars

\* The defaults the sequence of the packet had before the packet.
DefaultsBefore(p) ==
  IF SeqIdOf(p) \in DOMAIN prev.seqs
  THEN prev.gens[prev.seqs[SeqIdOf(p)].gen].defaults
  ELSE NoDefaults

\* The clock id the timestamp of the packet is to be read on: the packet's
\* own, else the one of the defaults the packet brings, else none after a
\* clear, else the one of the defaults the sequence had.
ExpectedClockId(p) ==
  IF p.has_clock THEN p.clock_id
  ELSE IF p.has_seq /\ p.has_defaults THEN p.defaults.timestamp_clock_id
  ELSE IF p.has_seq /\ ClearMarked(p) THEN 0
  ELSE IF DefaultsBefore(p).present THEN DefaultsBefore(p).timestamp_clock_id
  ELSE 0

\* The packet has a timestamp that is resolved on its clock id.
DatedCase ==
  /\ ReachesTimestamp
  /\ cur.p.has_ts
  /\ ~cur.p.chrome
  /\ ~(IsReservedSeqScopedClockId(ExpectedClockId(cur.p)) /\ SeqIdOf(cur.p) = 0)

ExpectedConversion(p) ==
  ToTraceTime(prev.clock,
              IF IsReservedSeqScopedClockId(ExpectedClockId(p))
              THEN <<SeqIdOf(p), ExpectedClockId(p)>>
              ELSE ClockId(ExpectedClockId(p)),
              p.ts)

\* C29: the timestamp is read on the packet's own timestamp_clock_id, else
\* on the one of the sequence's defaults, else on clock 0; the defaults and
\* the clear of the packet itself count: the defaults the packet brings
\* govern its timestamp and a clear in the packet removes earlier defaults.
C29_ClockIdFromPacketElseDefaults ==
  DatedCase =>
    IF ExpectedClockId(cur.p) = 0
    THEN /\ cur.route = "pushed"
         /\ LastPushed.ts = cur.p.ts
         /\ stats["clock_sync_failure"] = prev.stats["clock_sync_failure"]
    ELSE IF ExpectedConversion(cur.p).ok
    THEN /\ cur.route = "pushed"
         /\ LastPushed.ts = ExpectedConversion(cur.p).value
         /\ stats["clock_sync_failure"] = prev.stats["clock_sync_failure"]
    ELSE /\ cur.route = "timestamp"
         /\ cur.status = OkStatus
         /\ sorter = prev.sorter
         /\ stats["clock_sync_failure"] = prev.stats["clock_sync_failure"] + 1

\* A sequence whose defaults name an unknown clock sends a packet with a
\* clear, defaults on REALTIME and a timestamp: the timestamp is converted
\* from REALTIME.
C29_Witness ==
  /\ DatedCase
  /\ DefaultsBefore(cur.p) = DefaultsUnknown
  /\ ClearMarked(cur.p)
  /\ cur.p.has_defaults
  /\ ~cur.p.has_clock
  /\ ExpectedClockId(cur.p) = BUILTIN_CLOCK_REALTIME
  /\ cur.route = "pushed"
  /\ LastPushed.ts = 3

----------------------------------------------------------------------------
(* The deprecated windowed sorting mode: the same packets go to the instance *)
(* and to a second instance created with kDefaultHeuristics.                 *)

InitModes ==
  /\ InitConfig
  /\ input = <<>>
  /\ stream = <<>>

\* Both instances are handed the packet.
ParseModePacket ==
  /\ ~eof
  /\ status = OkStatus
  /\ steps < MaxPackets
  /\ \E p \in SorterPackets :
       /\ PacketHandled(ParsePacket(Ctx, p), p)
       /\ shadow' = ParsePacket(shadow, p).c
  /\ steps' = steps + 1
  /\ UNCHANGED <<force_full_sort, config_mode, tok, eof, input, stream, shell>>

NextModes == ParseModePacket \/ NotifyEndOfFile

SpecModes == InitModes /\ [][NextModes]_vars

----------------------------------------------------------------------------
(* Changed defaults (checked in the specification of the sequence state) *)

\* The defaults in effect when the trace_packet_defaults of the packet are
\* handled: after the markers of the packet itself.
DefaultsAtUpdate(p) ==
  IF ClearMarked(p) THEN NoDefaults ELSE DefaultsBefore(p)

\* The latest packet brings defaults that differ from those in effect.
DefaultsChangedCase ==
  /\ OnSequenceCase
  /\ cur.p.has_defaults
  /\ cur.p.defaults # DefaultsAtUpdate(cur.p)

\* C32: trace_packet_defaults that differ from the defaults in effect move
\* the sequence to a generation allocated by the packet; the defaults of that
\* generation are those of the packet, and every message that was interned
\* when the defaults were handled resolves to the same bytes in it.  Every
\* generation that existed before the packet keeps its defaults, so an entry
\* pushed earlier still sees the defaults of its push.
C32_ChangedDefaultsNewGeneration ==
  DefaultsChangedCase =>
    LET g == seqs[cur.p.seq].gen IN
    /\ g > Len(prev.gens)
    /\ gens[g].defaults = cur.p.defaults
    /\ \A k \in DOMAIN TableAtInterned(cur.p) :
         Lookup(gens[g].interned, k[1], k[2]) = TableAtInterned(cur.p)[k]
    /\ \A h \in 1..Len(prev.gens) : gens[h].defaults = prev.gens[h].defaults
    /\ \A e \in Range(prev.sorter.queue) :
         GenerationView(Ctx, e.gen).defaults = e.snap.defaults

\* A valid sequence with interned messages and defaults has an event in the
\* sorter and then changes its defaults without a clear.
C32_Witness ==
  /\ DefaultsChangedCase
  /\ ~ClearMarked(cur.p)
  /\ DefaultsAtUpdate(cur.p).present
  /\ DOMAIN TableAtInterned(cur.p) # {}
  /\ \E e \in Range(prev.sorter.queue) :
       /\ e.seq = cur.p.seq
       /\ e.gen = prev.seqs[cur.p.seq].gen
       /\ GenerationView(Ctx, e.gen).defaults = DefaultsAtUpdate(cur.p)
       /\ GenerationView(Ctx, e.gen).defaults # gens[seqs[cur.p.seq].gen].defaults
  /\ Lookup(gens[seqs[cur.p.seq].gen].interned, 1, 1) = "foo"

----------------------------------------------------------------------------
(* Chrome payloads (checked in the specification of the clocks) *)

\* The timestamp of a packet with chrome_events or chrome_metadata is
\* resolved, on clock id 0 or MONOTONIC.
ChromeCase ==
  /\ ReachesTimestamp
  /\ cur.p.has_ts
  /\ cur.p.chrome
  /\ EffectiveClockId(cur.p) \in {0, BUILTIN_CLOCK_MONOTONIC}

\* What the tracker answered for the packet's timestamp read on MONOTONIC.
MonotonicToTraceTime == ToTraceTime(prev.clock, ClockId(BUILTIN_CLOCK_MONOTONIC), cur.p.ts)

\* C33: a packet with a chrome payload whose timestamp is on clock id 0 or on
\* MONOTONIC is not dropped at the timestamp resolution: it goes on to the
\* modules and the sorter with the conversion of its timestamp from MONOTONIC
\* when there is one, else with its timestamp as it is.
C33_ChromeNeverDroppedForClock ==
  ChromeCase =>
    /\ cur.route \in {"pushed", "module"}
    /\ latest_timestamp =
         Max(prev.latest_timestamp,
             IF MonotonicToTraceTime.ok THEN MonotonicToTraceTime.value ELSE cur.p.ts)
    /\ cur.route = "pushed" =>
         /\ cur.status = OkStatus
         /\ sorter.packet_idx = prev.sorter.packet_idx + 1
         /\ LastPushed.ts = IF MonotonicToTraceTime.ok THEN MonotonicToTraceTime.value
                            ELSE cur.p.ts

\* A chrome packet without clock id is pushed with a converted timestamp that
\* differs from its own.
C33_Witness ==
  /\ ChromeCase
  /\ EffectiveClockId(cur.p) = 0
  /\ MonotonicToTraceTime.ok
  /\ cur.route = "pushed"
  /\ LastPushed.ts # cur.p.ts

\* A chrome packet on MONOTONIC that does not convert is pushed as it is.
C33_WitnessUnconverted ==
  /\ ChromeCase
  /\ EffectiveClockId(cur.p) = BUILTIN_CLOCK_MONOTONIC
  /\ ~MonotonicToTraceTime.ok
  /\ cur.route = "pushed"
  /\ LastPushed.ts = cur.p.ts

----------------------------------------------------------------------------
(* The order of the routes: packets that carry the fields of several routes, *)
(* frame timeline events, and events on clocks that convert or do not.       *)

FrameTimeline(p) == [p EXCEPT !.frame_timeline = TRUE]

\* BOOTTIME = 2 when REALTIME = 0.
RealtimeSnapshot ==
  Snap(0, <<Clk(BUILTIN_CLOCK_BOOTTIME, 2), Clk(BUILTIN_CLOCK_REALTIME, 0)>>)

OrderPackets ==
  LET none == NoSequence(BasePacket)
      flush == {"all_data_sources_flushed"}
  IN  { DatedPacket(1), DatedPacket(3), UndatedPacket, Cleared(DatedPacket(2)),
        WithModules(DatedPacket(2), <<"consumed">>),
        WithModules(DatedPacket(3), <<"ignored", "error">>) }
      \cup { FrameTimeline(UndatedPacket), FrameTimeline(DatedPacket(0)),
             FrameTimeline(DatedPacket(2)),
             WithModules(FrameTimeline(DatedPacket(0)), <<"consumed">>),
             WithClock(FrameTimeline(DatedPacket(0)), kUnknownClock),
             WithClock(FrameTimeline(WithTimestamp(none, 0)), kSeqScopedFirst),
             NeedsState(FrameTimeline(UndatedPacket)),
             WithService(FrameTimeline(DatedPacket(0)), flush) }
      \cup { WithSnapshot(none, RealtimeSnapshot),
             WithSnapshot(WithService(WithTimestamp(none, 3), flush), RealtimeSnapshot),
             WithSnapshot(WithExtension(NeedsState(none), FALSE), EmptySnapshot),
             WithSnapshot(NeedsState(FrameTimeline(UndatedPacket)), EmptySnapshot),
             WithSnapshot(none, Snap(0, <<Clk(kSeqScopedFirst, 0)>>)),
             WithService(WithExtension(WithTimestamp(none, 1), FALSE), flush),
             WithService(NeedsState(WithTimestamp(none, 2)), flush),
             WithService(WithModules(DatedPacket(3), <<"consumed">>), flush),
             WithExtension(NeedsState(none), TRUE),
             WithExtension(NeedsState(DatedPacket(3)), TRUE),
             WithExtension(DatedPacket(3), FALSE),
             NeedsState(none), NeedsState(DatedPacket(3)) }
      \cup { WithClock(DatedPacket(1), BUILTIN_CLOCK_REALTIME),
             WithClock(DatedPacket(0), BUILTIN_CLOCK_REALTIME),
             WithClock(DatedPacket(1), kUnknownClock),
             WithClock(WithTimestamp(none, 1), kSeqScopedFirst),
             Chrome(DatedPacket(3)) }

InitOrder ==
  /\ force_full_sort = FALSE
  /\ InitInstance(SortingModeOfFlag(FALSE))
  /\ shell = NoQueryRun
  /\ input = <<>>
  /\ stream = <<>>

ParseOrderPacket == ParsePacketStep(OrderPackets, MaxOrderPackets)

NextOrder == ParseOrderPacket \/ NotifyEndOfFile

SpecOrder == InitOrder /\ [][NextOrder]_vars

\* The packet passes the SEQ_NEEDS_INCREMENTAL_STATE check.
PassesNeedsCheck ==
  /\ CurPacket
  /\ ~cur.p.bytes_left
  /\ ~RoutedEarlier(cur.p)
  /\ \/ SEQ_NEEDS_INCREMENTAL_STATE \notin cur.p.sequence_flags
     \/ SeqIdOf(cur.p) # 0 /\ seqs[SeqIdOf(cur.p)].valid

\* A frame timeline event whose timestamp reads as zero reaches the
\* workaround.
ZeroFrameTimelineCase ==
  /\ PassesNeedsCheck
  /\ cur.p.frame_timeline
  /\ TimestampOf(cur.p) = 0

\* C34: a packet with frame_timeline_event whose timestamp is absent or zero
\* returns ok, counts one frame_timeline_event_parser_errors, leaves
\* latest_timestamp, the clocks and the sorter as they were and is offered to
\* no module.
C34_ZeroFrameTimelineDropped ==
  ZeroFrameTimelineCase =>
    /\ cur.status = OkStatus
    /\ cur.route = "frame_timeline"
    /\ stats["frame_timeline_event_parser_errors"] =
         prev.stats["frame_timeline_event_parser_errors"] + 1
    /\ stats["clock_sync_failure"] = prev.stats["clock_sync_failure"]
    /\ latest_timestamp = prev.latest_timestamp
    /\ cur.offered = 0
    /\ sorter = prev.sorter
    /\ clock = prev.clock

\* A frame timeline event with timestamp 0 and a registered module arrives
\* after an event was pushed.
C34_Witness ==
  /\ ZeroFrameTimelineCase
  /\ cur.p.has_ts
  /\ cur.p.modules # <<>>
  /\ Len(sorter.queue) >= 1
  /\ prev.latest_timestamp > 0
  /\ stats["frame_timeline_event_parser_errors"] = 1

\* The timestamp the packet resolves to, from the state before the packet:
\* the frontier for a packet without timestamp, the conversion from
\* MONOTONIC, if there is one, for a chrome payload on clock 0 or MONOTONIC,
\* the conversion from the packet's clock when that is not 0, else the
\* timestamp as it is.
ResolvedTimestamp(p) ==
  IF ~p.has_ts
  THEN Max(prev.latest_timestamp, SorterMaxTimestamp(prev.sorter))
  ELSE IF p.chrome /\ EffectiveClockId(p) \in {0, BUILTIN_CLOCK_MONOTONIC}
  THEN IF ToTraceTime(prev.clock, ClockId(BUILTIN_CLOCK_MONOTONIC), p.ts).ok
       THEN ToTraceTime(prev.clock, ClockId(BUILTIN_CLOCK_MONOTONIC), p.ts).value
       ELSE p.ts
  ELSE IF EffectiveClockId(p) # 0
  THEN ToTraceTime(prev.clock, ConvertedClockId(p), p.ts).value
  ELSE p.ts

\* C35: latest_timestamp never decreases; a packet that is pushed or taken
\* by a module leaves it at the maximum of its previous value and the
\* packet's resolved timestamp; every other packet, and the end of the file,
\* leave it as it was.
C35_LatestTimestampIsRunningMax ==
  /\ latest_timestamp >= prev.latest_timestamp
  /\ (CurPacket /\ cur.route \in {"pushed", "module"}) =>
       latest_timestamp = Max(prev.latest_timestamp, ResolvedTimestamp(cur.p))
  /\ (CurPacket /\ cur.route \notin {"pushed", "module"}) =>
       latest_timestamp = prev.latest_timestamp
  /\ ~CurPacket => latest_timestamp = prev.latest_timestamp

\* A packet is pushed with a converted timestamp that is below the latest one.
C35_Witness ==
  /\ CurPacket
  /\ cur.route = "pushed"
  /\ cur.p.has_clock
  /\ ResolvedTimestamp(cur.p) # cur.p.ts
  /\ ResolvedTimestamp(cur.p) < prev.latest_timestamp
  /\ latest_timestamp = prev.latest_timestamp

----------------------------------------------------------------------------
(* Incremental clocks: snapshots of two sequences with an incremental        *)
(* sequence-scoped clock, with and without a unit multiplier, and clears.    *)

ClkTimes(clk, mult) == [clk EXCEPT !.unit_multiplier_ns = mult]

IncrementalPackets ==
  LET one  == OnSequence(BasePacket, 1)
      two  == OnSequence(BasePacket, 2)
      none == NoSequence(BasePacket)
      boot(t) == Clk(BUILTIN_CLOCK_BOOTTIME, t)
  IN  { WithSnapshot(one, Snap(0, <<boot(1), IncrementalClk(kSeqScopedFirst, 1)>>)),
        WithSnapshot(one, Snap(0, <<boot(2),
                                    ClkTimes(IncrementalClk(kSeqScopedFirst, 2), 3)>>)),
        WithSnapshot(one, Snap(0, <<boot(0), Clk(kSeqScopedFirst, 2)>>)),
        WithSnapshot(one, Snap(0, <<boot(1)>>)),
        ClearedField(WithSnapshot(one, Snap(0, <<boot(3),
                                                 IncrementalClk(kSeqScopedFirst, 1)>>))),
        WithSnapshot(two, Snap(0, <<boot(1), IncrementalClk(kSeqScopedFirst, 1)>>)),
        WithSnapshot(none, Snap(0, <<boot(3),
                                     ClkTimes(IncrementalClk(BUILTIN_CLOCK_REALTIME, 1), 2)>>)),
        WithSnapshot(none, Snap(BUILTIN_CLOCK_REALTIME, <<boot(1)>>)),
        WithSnapshot(none, Snap(BUILTIN_CLOCK_MONOTONIC,
                                <<boot(1), Clk(kSeqScopedFirst, 0)>>)),
        WithSnapshot(none, Snap(0, <<boot(2), Clk(kSeqScopedLast, 1)>>)),
        Cleared(one), Cleared(two), Dropped(one),
        WithClock(WithTimestamp(one, 1), kSeqScopedFirst) }

InitIncremental ==
  /\ force_full_sort = FALSE
  /\ InitInstance(SortingModeOfFlag(FALSE))
  /\ shell = NoQueryRun
  /\ input = <<>>
  /\ stream = <<>>

ParseIncrementalPacket == ParsePacketStep(IncrementalPackets, MaxIncrementalPackets)

NextIncremental == ParseIncrementalPacket \/ NotifyEndOfFile

SpecIncremental == InitIncremental /\ [][NextIncremental]_vars

\* The snapshots before the latest one that mention clock id and, for a
\* sequence-scoped clock, were added after the latest clear of its sequence.
EarlierMentions(id) ==
  { j \in 1..(Len(clock.snapshots) - 1) :
      /\ id \in DOMAIN clock.snapshots[j]
      /\ (id[1] # 0 /\ id[1] \in DOMAIN cleared_at) => j > cleared_at[id[1]] }

\* The absolute value the accumulation of clock id goes on from.
AccumulatedBefore(id) ==
  IF EarlierMentions(id) = {} THEN 0
  ELSE clock.snapshots[CHOOSE j \in EarlierMentions(id) :
                         \A k \in EarlierMentions(id) : k <= j][id]

\* unit_multiplier_ns, a missing or zero one counting as 1.
MultiplierOf(clk) == IF clk.unit_multiplier_ns = 0 THEN 1 ELSE clk.unit_multiplier_ns

\* C37: the absolute value stored for an incremental clock of a snapshot is
\* the absolute value of that clock in the most recent earlier snapshot that
\* mentions it (0 when there is none) plus value x unit_multiplier_ns, a zero
\* multiplier counting as 1; for a sequence-scoped clock only the snapshots
\* added since the latest clear of its sequence count.
C37_IncrementalClockAccumulates ==
  SnapshotAdded =>
    \A i \in 1..Len(cur.p.snapshot.clocks) :
      cur.p.snapshot.clocks[i].is_incremental =>
        clock.snapshots[Len(clock.snapshots)][GlobalClockId(cur.p, i)] =
          AccumulatedBefore(GlobalClockId(cur.p, i))
            + cur.p.snapshot.clocks[i].timestamp * MultiplierOf(cur.p.snapshot.clocks[i])

\* A sequence accumulates its incremental clock, is cleared, and sends the
\* clock again: the stored value is the value of the packet alone.
C37_Witness ==
  /\ SnapshotAdded
  /\ ~ClearMarked(cur.p)
  /\ \E i \in 1..Len(cur.p.snapshot.clocks) :
       /\ cur.p.snapshot.clocks[i].is_incremental
       /\ GlobalClockId(cur.p, i)[1] \in DOMAIN cleared_at
       /\ \E j \in 1..(Len(clock.snapshots) - 1) :
            /\ GlobalClockId(cur.p, i) \in DOMAIN clock.snapshots[j]
            /\ clock.snapshots[j][GlobalClockId(cur.p, i)] > 0
       /\ EarlierMentions(GlobalClockId(cur.p, i)) = {}
       /\ MultiplierOf(cur.p.snapshot.clocks[i]) > 1
       /\ clock.snapshots[Len(clock.snapshots)][GlobalClockId(cur.p, i)] =
            cur.p.snapshot.clocks[i].timestamp * MultiplierOf(cur.p.snapshot.clocks[i])

\* An incremental clock goes on from the value of an earlier snapshot, with a
\* snapshot that does not mention it in between.
C37_WitnessAccumulated ==
  /\ SnapshotAdded
  /\ \E i \in 1..Len(cur.p.snapshot.clocks) :
       /\ cur.p.snapshot.clocks[i].is_incremental
       /\ EarlierMentions(GlobalClockId(cur.p, i)) # {}
       /\ Len(clock.snapshots) - 1 \notin EarlierMentions(GlobalClockId(cur.p, i))
       /\ AccumulatedBefore(GlobalClockId(cur.p, i)) > 0

----------------------------------------------------------------------------
(* A ClockSnapshot rejected for a sequence-scoped clock on no sequence.      *)

SnapshotRejected ==
  /\ CurPacket
  /\ cur.route = "clock_snapshot"
  /\ cur.status = ErrStatus

\* C38 as stated: a ClockSnapshot rejected for a sequence-scoped clock with
\* sequence id 0 adds no snapshot, inserts no row and leaves the trace-time
\* clock unchanged, even when it sets primary_trace_clock.
C38_RejectedSnapshotLeavesTracker ==
  SnapshotRejected =>
    /\ clock.snapshots = prev.clock.snapshots
    /\ snapshot_table = prev.snapshot_table
    /\ clock.trace_time_clock = prev.clock.trace_time_clock

\* C38: a ClockSnapshot rejected for a sequence-scoped clock with sequence id
\* 0 adds no snapshot and inserts no row; the trace-time clock is unchanged
\* when the snapshot sets no primary_trace_clock, and is the snapshot's
\* primary_trace_clock when it sets one.
C38_RejectedSnapshotKeepsSnapshotsSetsPrimary ==
  SnapshotRejected =>
    /\ clock.snapshots = prev.clock.snapshots
    /\ snapshot_table = prev.snapshot_table
    /\ clock.trace_time_clock =
         IF cur.p.snapshot.primary_trace_clock # 0
         THEN ClockId(cur.p.snapshot.primary_trace_clock)
         ELSE prev.clock.trace_time_clock

\* A rejected snapshot with a primary_trace_clock other than the trace-time
\* clock in force, after a snapshot that was added.
C38_Witness ==
  /\ SnapshotRejected
  /\ cur.p.snapshot.primary_trace_clock # 0
  /\ ClockId(cur.p.snapshot.primary_trace_clock) # prev.clock.trace_time_clock
  /\ Len(prev.clock.snapshots) > 0
  /\ Len(prev.snapshot_table) > 0
  /\ clock.trace_time_clock = ClockId(cur.p.snapshot.primary_trace_clock)

----------------------------------------------------------------------------
(* One route per packet, in a fixed order.                                   *)

\* The routes a packet may leave by, from its fields and the validity of its
\* sequence, the first test that applies deciding.
RoutesInOrder(p) ==
  IF p.has_snapshot THEN {"clock_snapshot"}
  ELSE IF p.has_service THEN {"service_event"}
  ELSE IF p.has_ext THEN {"extension_descriptor"}
  ELSE IF /\ SEQ_NEEDS_INCREMENTAL_STATE \in p.sequence_flags
          /\ (SeqIdOf(p) = 0 \/ ~seqs[SeqIdOf(p)].valid)
  THEN {"needs_incremental_state"}
  ELSE IF p.frame_timeline /\ TimestampOf(p) = 0 THEN {"frame_timeline"}
  ELSE {"timestamp", "module", "pushed"}

\* C39: a packet leaves by the first route that applies, in the order
\* clock_snapshot, service_event, extension_descriptor, needs_incremental_state
\* check, frame-timeline workaround, timestamp resolution and dispatch; a
\* packet with clock_snapshot and service_event notifies the sorter of no
\* barrier and records no service metadata, and a packet with clock_snapshot,
\* service_event or extension_descriptor is not pushed, not offered to a
\* module, not counted as skipped or as a frame-timeline error, and does not
\* return the error of the needs_incremental_state check.
C39_OneRouteInFixedOrder ==
  (CurPacket /\ ~cur.p.bytes_left) =>
    /\ cur.route \in RoutesInOrder(cur.p)
    /\ (cur.p.has_snapshot /\ cur.p.has_service) =>
         /\ sorter = prev.sorter
         /\ metadata = prev.metadata
    /\ RoutedEarlier(cur.p) =>
         /\ sorter.packet_idx = prev.sorter.packet_idx
         /\ cur.offered = 0
         /\ latest_timestamp = prev.latest_timestamp
         /\ stats["tokenizer_skipped_packets"] = prev.stats["tokenizer_skipped_packets"]
         /\ stats["frame_timeline_event_parser_errors"] =
              prev.stats["frame_timeline_event_parser_errors"]
         /\ (~cur.p.has_snapshot /\ cur.p.has_service) => cur.status = OkStatus
         /\ (cur.p.has_snapshot /\ cur.status = ErrStatus) =>
              \E i \in 1..Len(cur.p.snapshot.clocks) :
                IsReservedSeqScopedClockId(cur.p.snapshot.clocks[i].clock_id)

\* A packet with a clock_snapshot and a flush service_event is handled as a
\* clock snapshot while events wait in the sorter: they stay there.
C39_Witness ==
  /\ CurPacket
  /\ cur.p.has_snapshot
  /\ cur.p.has_service
  /\ "all_data_sources_flushed" \in cur.p.service
  /\ cur.route = "clock_snapshot"
  /\ cur.status = OkStatus
  /\ Len(sorter.queue) >= 2
  /\ sorter.flush_events = 0

\* A packet with extension_descriptor and the needs_incremental_state flag on
\* no sequence returns ok by the extension route.
C39_WitnessNeedsStateNotChecked ==
  /\ CurPacket
  /\ cur.p.has_ext
  /\ SEQ_NEEDS_INCREMENTAL_STATE \in cur.p.sequence_flags
  /\ SeqIdOf(cur.p) = 0
  /\ cur.route = "extension_descriptor"
  /\ cur.status = OkStatus

----------------------------------------------------------------------------
(* The shell's query file: RunQueriesAndPrintResult.                         *)

\* What ExecuteQuery gives for one query of the file. The iterator belongs to
\* the trace processor: its shape is an input. Next() returns true `rows`
\* times; the call after that returns false, with an error status when
\* step_ok is FALSE.
Query(cols, name, prepared, rows, stepped, null) ==
  [column_count |-> cols, column_name |-> name, prepare_ok |-> prepared,
   rows |-> rows, step_ok |-> stepped, is_null |-> null]

kSuppressQueryOutput == "suppress_query_output"

QueryKinds ==
  { Query(0, "", TRUE, 0, TRUE, FALSE),                     \* CREATE VIEW ...
    Query(0, "", TRUE, 0, FALSE, FALSE),                    \* a statement that fails when stepped
    Query(0, "", FALSE, 0, TRUE, FALSE),                    \* a syntax error
    Query(1, kSuppressQueryOutput, TRUE, 1, TRUE, TRUE),    \* SELECT RUN_METRIC(...) AS suppress_query_output
    Query(1, kSuppressQueryOutput, TRUE, 0, FALSE, TRUE),   \* the same, failing at its first step
    Query(1, kSuppressQueryOutput, TRUE, 1, FALSE, TRUE),   \* the same, failing at its second step
    Query(1, kSuppressQueryOutput, TRUE, 2, TRUE, TRUE),    \* two rows under that name
    Query(1, kSuppressQueryOutput, TRUE, 1, TRUE, FALSE),   \* a value that is not null
    Query(1, "ts", TRUE, 2, TRUE, FALSE),                   \* SELECT ts FROM ...
    Query(1, "ts", TRUE, 0, TRUE, FALSE),                   \* a SELECT without rows
    Query(1, "ts", TRUE, 1, FALSE, FALSE),                  \* a SELECT that fails after a row
    Query(2, kSuppressQueryOutput, TRUE, 1, TRUE, TRUE) }   \* two columns, the first of that name

QueryLists == UNION { [1..n -> QueryKinds] : n \in 0..MaxQueries }

kMoreThanOneQuery == "More than one query generated result rows. This is unsupported."

\* The status of the iterator of query i once its error shows.
QueryError(i) == [msg |-> "query failed", query |-> i]

\* Mutant of IsSuppressQueryOutput: the column name is not looked at.
IsSuppressQueryOutput_Never(q) == FALSE

\* it.ColumnCount() == 1 && it.GetColumnName(0) == "suppress_query_output"
IsSuppressQueryOutput(q) ==
  q.column_count = 1 /\ q.column_name = kSuppressQueryOutput

\* What PrintQueryResultAsCsv writes for query i: the header line, then one
\* line per row until Next() returns false.
PrintQueryResultAsCsv(q, i) ==
  <<[kind |-> "header", query |-> i, row |-> 0]>>
    \o [r \in 1..q.rows |-> [kind |-> "row", query |-> i, row |-> r]]

ReturnError(st, err) ==
  [st EXCEPT !.outcome = "returned", !.status = ErrStatus, !.error = err]

\* A PERFETTO_DCHECK that fails in a build that has them on.
DcheckFailed(st) == [st EXCEPT !.outcome = "aborted"]

\* One iteration of the loop over the queries.
RunQuery(st0, q, i) ==
  LET st == [st0 EXCEPT
               !.output = IF i > 1 THEN Append(@, [kind |-> "newline", query |-> i,
                                                   row |-> 0])
                          ELSE @,
               !.executed = Append(@, i)]
  IN  IF ~q.prepare_ok THEN ReturnError(st, QueryError(i))
      ELSE IF q.column_count = 0
      THEN IF q.rows = 0 /\ ~q.step_ok THEN ReturnError(st, QueryError(i))
           ELSE IF st.dcheck /\ q.rows > 0 THEN DcheckFailed(st)
           ELSE st
      ELSE IF IsSuppressQueryOutput(q)
      THEN IF q.rows = 0 /\ ~q.step_ok THEN ReturnError(st, QueryError(i))
           ELSE IF st.dcheck /\ (q.rows = 0 \/ ~q.is_null) THEN DcheckFailed(st)
           ELSE IF q.rows = 1 /\ ~q.step_ok THEN ReturnError(st, QueryError(i))
           ELSE IF st.dcheck /\ q.rows >= 2 THEN DcheckFailed(st)
           ELSE st
      ELSE IF st.has_output
      THEN ReturnError(st, [msg |-> kMoreThanOneQuery, query |-> i])
      ELSE LET printed == [st EXCEPT !.has_output = TRUE,
                                     !.output = @ \o PrintQueryResultAsCsv(q, i)]
           IN  IF ~q.step_ok THEN ReturnError(printed, QueryError(i))
               ELSE printed

RECURSIVE RunQueriesFrom(_, _, _)
RunQueriesFrom(queries, i, st) ==
  IF st.outcome # "running" THEN st
  ELSE IF i > Len(queries) THEN [st EXCEPT !.outcome = "returned"]
  ELSE RunQueriesFrom(queries, i + 1, RunQuery(st, queries[i], i))

RunQueriesAndPrintResult(queries, dcheck) ==
  RunQueriesFrom(queries, 1,
                 [NoQueryRun EXCEPT !.queries = queries, !.dcheck = dcheck,
                                    !.outcome = "running"])

\* A query file is about to be run, in a build with or without DCHECKs.
InitQueries ==
  /\ force_full_sort = FALSE
  /\ InitInstance(SortingModeOfFlag(FALSE))
  /\ input = <<>>
  /\ stream = <<>>
  /\ \E qs \in QueryLists, d \in BOOLEAN :
       shell = [NoQueryRun EXCEPT !.queries = qs, !.dcheck = d, !.outcome = "loaded"]

\* RunQueries(path, expect_output = true), once the file is loaded.
RunQueries ==
  /\ shell.outcome = "loaded"
  /\ shell' = RunQueriesAndPrintResult(shell.queries, shell.dcheck)
  /\ UNCHANGED <<force_full_sort, config_mode, latest_timestamp, seqs, gens, clock,
                 stats, metadata, snapshot_table, sorter, tok, status, eof, input,
                 stream, steps, npushed, since_clear, parsed, cur, prev,
                 dropped_since, snap_log, cleared_at, shadow>>

NextQueries == RunQueries

SpecQueries == InitQueries /\ [][NextQueries]_vars

Least(S) == CHOOSE x \in S : \A y \in S : x <= y

\* The queries of the file that are neither statements without columns nor
\* suppressed: those that have result rows to print.
OtherQueries ==
  { i \in 1..Len(shell.queries) :
      /\ shell.queries[i].prepare_ok
      /\ shell.queries[i].column_count > 0
      /\ ~(shell.queries[i].column_count = 1
           /\ shell.queries[i].column_name = kSuppressQueryOutput) }

\* The queries after the first of them.
LaterOtherQueries ==
  IF OtherQueries = {} THEN {} ELSE OtherQueries \ {Least(OtherQueries)}

\* The queries whose execution fails.
FailingQueries ==
  { i \in 1..Len(shell.queries) :
      ~shell.queries[i].prepare_ok \/ ~shell.queries[i].step_ok }

\* The queries the run cannot get past.
StoppingQueries == FailingQueries \cup LaterOtherQueries

\* The queries with a header line or a row in the output.
PrintedQueries ==
  { shell.output[k].query : k \in { j \in 1..Len(shell.output) :
                                      shell.output[j].kind # "newline" } }

\* C40: a run of RunQueriesAndPrintResult that returns has printed at most one
\* query, the first that is neither without columns nor the single column
\* suppress_query_output; at a second such query it returns the error "More
\* than one query generated result rows" and at the first query whose
\* execution fails that query's error, whichever comes first, and the queries
\* after that one are not executed; without either it returns ok after
\* executing every query.
C40_AtMostOneQueryPrints ==
  /\ shell.outcome \in {"returned", "aborted"} =>
       /\ Cardinality(PrintedQueries) <= 1
       /\ PrintedQueries \subseteq OtherQueries
  /\ shell.outcome = "returned" =>
       IF StoppingQueries = {}
       THEN /\ shell.status = OkStatus
            /\ shell.executed = [i \in 1..Len(shell.queries) |-> i]
            /\ PrintedQueries = OtherQueries
       ELSE /\ shell.status = ErrStatus
            /\ shell.executed = [i \in 1..Least(StoppingQueries) |-> i]
            /\ shell.error =
                 IF Least(StoppingQueries) \in LaterOtherQueries
                 THEN [msg |-> kMoreThanOneQuery, query |-> Least(StoppingQueries)]
                 ELSE QueryError(Least(StoppingQueries))
            /\ PrintedQueries =
                 { i \in OtherQueries :
                     i = Least(OtherQueries) /\ i <= Least(StoppingQueries) }

\* A suppressed query, a query that prints its rows, a second query with rows
\* and a query that is never executed.
C40_Witness ==
  /\ shell.outcome = "returned"
  /\ Len(shell.queries) = 4
  /\ shell.queries[1].column_name = kSuppressQueryOutput
  /\ shell.queries[1].column_count = 1
  /\ PrintedQueries = {2}
  /\ shell.queries[2].rows = 2
  /\ shell.error.msg = kMoreThanOneQuery
  /\ shell.error.query = 3
  /\ shell.executed = <<1, 2, 3>>

\* A query fails before any query printed.
C40_WitnessFailure ==
  /\ shell.outcome = "returned"
  /\ shell.queries # <<>>
  /\ shell.queries[1].column_count = 0
  /\ shell.error = QueryError(2)
  /\ Len(shell.queries) > 2
  /\ PrintedQueries = {}

====
